---- MODULE Spec2Model ----
(***************************************************************************)
(* Matatu Sacco Manager: the four JSON stores (vehicles, drivers,          *)
(* collections, expenses), the menu handlers that change them, and the     *)
(* reports computed from them.                                             *)
(*                                                                         *)
(* The program is single threaded and every handler loads the stores it    *)
(* needs, works on the loaded arrays and saves them before it returns, so  *)
(* the state between two handlers is the content of the four files.  Each  *)
(* action below is one whole handler, from its load to its save.           *)
(*                                                                         *)
(* Numbers: amounts and targets are JavaScript numbers; they are modelled  *)
(* as integers and every quotient (average, percentage) as an exact        *)
(* fraction [num, den], so floating point rounding is not modelled.        *)
(* Strings: registrations and names are model strings already in the       *)
(* normalised form the handlers store; ids are the tuple <<prefix, d1, d2, *)
(* d3>> of the prefix and the zero padded digits that generateId produces. *)
(* Dates 'YYYY-MM-DD' are modelled by their day number.                    *)
(***************************************************************************)
EXTENDS Integers, Sequences, FiniteSets, TLC

VARIABLES
    vehicles,       \* content of data/vehicles.json    (sequence of Vehicle)
    drivers,        \* content of data/drivers.json     (sequence of Driver)
    collections,    \* content of data/collections.json (sequence of Collection)
    expenses,       \* content of data/expenses.json    (sequence of Expense)
    last,           \* the handler that ran last, its inputs and how it ended
    report          \* what the last handler printed, when it was a report

vars == <<vehicles, drivers, collections, expenses, last, report>>

----------------------------------------------------------------------------
(* Bounds of the model *)

MaxVehicles == 2
MaxDrivers == 2

----------------------------------------------------------------------------
(* Values *)

\* null of a nullable id reference (assignedDriverId, assignedVehicleId)
NULL == <<>>

\* driverId of a collection recorded without a driver
UNASSIGNED == <<"unassigned">>

\* the registration typed for the n-th vehicle and the name of the n-th driver
Registrations == <<"KAA 001A", "KBB 002B", "KCC 003C", "KDD 004D", "KEE 005E", "KFF 006F">>
UnknownRegistration == "KZZ 999Z"

DriverNames == <<"ann", "anna", "ben", "ann", "ben", "ann">>
SearchTerms == {"", "ann", "zed"}

\* what the operator may type at a registration prompt
RegistrationInputs(vs) ==
    {vs[i].registration : i \in 1..Len(vs)} \cup {UnknownRegistration}

\* the results a save can have
MayFail == BOOLEAN
Succeeds == {TRUE}

\* String.prototype.includes on the names and search terms of the model
NameIncludes(name, term) ==
    \/ term = ""
    \/ term = name
    \/ (term = "ann" /\ name = "anna")

----------------------------------------------------------------------------
(* Sequence helpers standing for Array.prototype.filter / find / map *)

Filter(seq, Test(_)) == SelectSeq(seq, Test)

\* index of the first element that passes the test, 0 when there is none
FindIndex(seq, Test(_)) ==
    IF \E i \in 1..Len(seq) : Test(seq[i])
    THEN CHOOSE i \in 1..Len(seq) :
            Test(seq[i]) /\ \A j \in 1..(i - 1) : ~Test(seq[j])
    ELSE 0

RECURSIVE SumAmount(_)
SumAmount(seq) ==
    IF seq = <<>> THEN 0 ELSE Head(seq).amount + SumAmount(Tail(seq))

\* Array.prototype.reduce((sum, n) => sum + n, 0) on numbers
RECURSIVE SumNumbers(_)
SumNumbers(ns) == IF ns = <<>> THEN 0 ELSE Head(ns) + SumNumbers(Tail(ns))

Ids(seq) == {seq[i].id : i \in 1..Len(seq)}

----------------------------------------------------------------------------
(* utils.ts *)

RECURSIVE Digits(_)
\* String(counter): the decimal digits of a positive counter
Digits(n) == IF n < 10 THEN <<n>> ELSE Digits(n \div 10) \o <<n % 10>>

RECURSIVE PadStart(_, _)
\* padStart(width, '0') on a digit string
PadStart(ds, width) == IF Len(ds) >= width THEN ds ELSE PadStart(<<0>> \o ds, width)

IdWidth == 3

MakeId(prefix, counter) == <<prefix>> \o PadStart(Digits(counter), IdWidth)

RECURSIVE NextFreeCounter(_, _, _)
NextFreeCounter(prefix, existingIds, counter) ==
    IF MakeId(prefix, counter) \in existingIds
    THEN NextFreeCounter(prefix, existingIds, counter + 1)
    ELSE counter

\* a generator that numbers the new record after the count of the records
generateId_Count(prefix, existingIds) ==
    MakeId(prefix, Cardinality(existingIds) + 1)

generateId(prefix, existingIds) ==
    MakeId(prefix, NextFreeCounter(prefix, existingIds, 1))

\* vehicles.find(v => registration matches); 0 when undefined
findVehicleByRegistration(vs, registration) ==
    FindIndex(vs, LAMBDA v : v.registration = registration)

\* drivers.filter(d => d.name includes the search term), as indexes into drivers
RECURSIVE MatchingIndexes(_, _, _)
MatchingIndexes(ds, term, i) ==
    IF i > Len(ds) THEN <<>>
    ELSE IF NameIncludes(ds[i].name, term)
         THEN <<i>> \o MatchingIndexes(ds, term, i + 1)
         ELSE MatchingIndexes(ds, term, i + 1)

findDriverByName(ds, term) == MatchingIndexes(ds, term, 1)

----------------------------------------------------------------------------
(* fileUtils.ts: a save either writes the whole array or fails and leaves  *)
(* the file as it was                                                      *)

writeJSONFile(file, data, ok) == IF ok THEN data ELSE file

NoOp == [op |-> "none", outcome |-> "none", driverId |-> NULL, vehicleId |-> NULL,
         prevDriverId |-> NULL, prevVehicleId |-> NULL]

NoReport == [kind |-> "none"]

Ended(op, outcome) == [NoOp EXCEPT !.op = op, !.outcome = outcome]

----------------------------------------------------------------------------
(* JavaScript numbers as they are typed, parsed and written.  A number is  *)
(* the record [num, den] of a fraction; den = 0 for the numbers that are   *)
(* not finite.  A line that is typed is the sequence of its characters.    *)

NaN == [num |-> 0, den |-> 0]
Infinity == [num |-> 1, den |-> 0]
NegativeInfinity == [num |-> 0 - 1, den |-> 0]

\* the number of a whole number n
Finite(n) == [num |-> n, den |-> 1]

DigitCharacters == <<"0", "1", "2", "3", "4", "5", "6", "7", "8", "9">>
IsDigit(ch) == \E d \in 1..Len(DigitCharacters) : DigitCharacters[d] = ch
DigitValue(ch) == (CHOOSE d \in 1..Len(DigitCharacters) : DigitCharacters[d] = ch) - 1

RECURSIVE LeadingDigits(_)
\* the longest prefix of chars that consists of digits
LeadingDigits(chars) ==
    IF Len(chars) = 0 \/ ~IsDigit(Head(chars)) THEN <<>>
    ELSE <<Head(chars)>> \o LeadingDigits(Tail(chars))

RECURSIVE DecimalValue(_)
DecimalValue(digits) ==
    IF Len(digits) = 0 THEN 0
    ELSE DecimalValue(SubSeq(digits, 1, Len(digits) - 1)) * 10
            + DigitValue(digits[Len(digits)])

InfinityLiteral == <<"I", "n", "f", "i", "n", "i", "t", "y">>

StartsWith(chars, prefix) ==
    Len(chars) >= Len(prefix) /\ SubSeq(chars, 1, Len(prefix)) = prefix

IsSigned(chars) == Len(chars) > 0 /\ Head(chars) \in {"-", "+"}
IsNegative(chars) == Len(chars) > 0 /\ Head(chars) = "-"
Unsigned(chars) == IF IsSigned(chars) THEN Tail(chars) ELSE chars

\* parseFloat of a trimmed line without a fraction or an exponent: an
\* optional sign, then the literal Infinity or the longest prefix of digits;
\* what follows is ignored; NaN when there is neither
parseFloat(chars) ==
    LET digits == LeadingDigits(Unsigned(chars))
    IN IF StartsWith(Unsigned(chars), InfinityLiteral)
       THEN (IF IsNegative(chars) THEN NegativeInfinity ELSE Infinity)
       ELSE IF Len(digits) = 0 THEN NaN
       ELSE Finite(IF IsNegative(chars) THEN 0 - DecimalValue(digits)
                   ELSE DecimalValue(digits))

\* parseInt of a trimmed line: an optional sign and the longest prefix of
\* digits; NaN when there is no digit
parseInt(chars) ==
    LET digits == LeadingDigits(Unsigned(chars))
    IN IF Len(digits) = 0 THEN NaN
       ELSE Finite(IF IsNegative(chars) THEN 0 - DecimalValue(digits)
                   ELSE DecimalValue(digits))

isNaN(x) == x = NaN

\* x > 0 and x <= 0; both are false of NaN
GreaterThanZero(x) == x = Infinity \/ (x.den # 0 /\ x.num > 0)
AtMostZero(x) == x = NegativeInfinity \/ (x.den # 0 /\ x.num <= 0)

\* JSON.stringify writes a number that is not finite as null.  The stores
\* of the model keep a whole number in a number field: for a stored null
\* they keep the number that the program reads it as wherever it computes
\* or compares with the field (null > 0, x / null)
NullAsNumber == 0
JSONNumber(x) == IF x.den = 0 THEN NullAsNumber ELSE x.num

----------------------------------------------------------------------------
(* vehicles.ts *)

\* lines 122-130: the vehicle that is added to the loaded array vs
NewVehicle(vs, registration, capacity, route, dailyTarget, status) ==
    [id |-> generateId("v", Ids(vs)),
     registration |-> registration,
     capacity |-> capacity,
     route |-> route,
     dailyTarget |-> dailyTarget,
     status |-> status,
     assignedDriverId |-> NULL]

\* dailyTarget is parseFloat of the line typed at the target prompt
addVehicle(registration, capacity, route, dailyTarget, status, ok) ==
    \* the registration prompt repeats until the registration is unused
    /\ findVehicleByRegistration(vehicles, registration) = 0
    \* lines 85-95: the target prompt repeats while
    \* isNaN(dailyTarget) || dailyTarget <= 0
    /\ ~(isNaN(dailyTarget) \/ AtMostZero(dailyTarget))
    /\ capacity > 0 /\ capacity <= 60
    /\ LET newVehicle == NewVehicle(vehicles, registration, capacity, route,
                                    JSONNumber(dailyTarget), status)
       IN /\ vehicles' = writeJSONFile(vehicles, Append(vehicles, newVehicle), ok)
          /\ last' = [Ended("addVehicle", IF ok THEN "saved" ELSE "saveFailed")
                         EXCEPT !.vehicleId = newVehicle.id]
    /\ report' = NoReport
    /\ UNCHANGED <<drivers, collections, expenses>>

\* updateVehicle ends without a save
UpdateVehicleReturns(outcome) ==
    /\ last' = Ended("updateVehicle", outcome)
    /\ UNCHANGED vehicles

\* an update that also takes the driver off the vehicle
UpdateVehicleSaves_ClearsDriver(vs, vi, SaveResults) ==
    \E ok \in SaveResults :
        /\ vehicles' = writeJSONFile(vehicles, [vs EXCEPT ![vi].assignedDriverId = NULL], ok)
        /\ last' = [Ended("updateVehicle", IF ok THEN "saved" ELSE "saveFailed")
                       EXCEPT !.vehicleId = vehicles[vi].id]

\* lines 372-377: saveVehicles(vehicles) with the vehicle changed in place
UpdateVehicleSaves(vs, vi, SaveResults) ==
    \E ok \in SaveResults :
        /\ vehicles' = writeJSONFile(vehicles, vs, ok)
        /\ last' = [Ended("updateVehicle", IF ok THEN "saved" ELSE "saveFailed")
                       EXCEPT !.vehicleId = vehicles[vi].id]

\* lines 318-329: the new target is stored when the line is not empty and
\* !isNaN(newTarget) && newTarget > 0; the save writes the array as JSON
UpdatedTarget(vs, vi, targetInput) ==
    LET newTarget == parseFloat(targetInput)
    IN IF Len(targetInput) > 0 /\ ~isNaN(newTarget) /\ GreaterThanZero(newTarget)
       THEN [vs EXCEPT ![vi].dailyTarget = JSONNumber(newTarget)]
       ELSE vs

\* lines 348-359: the new capacity
UpdatedCapacity(vs, vi, capacityInput) ==
    LET newCapacity == parseInt(capacityInput)
    IN IF Len(capacityInput) > 0 /\ ~isNaN(newCapacity) /\ GreaterThanZero(newCapacity)
       THEN [vs EXCEPT ![vi].capacity = JSONNumber(newCapacity)]
       ELSE vs

\* lines 331-347: the status of a status choice
StatusOfChoice(statusChoice) ==
    CASE statusChoice = "1" -> "active"
      [] statusChoice = "2" -> "inactive"
      [] statusChoice = "3" -> "maintenance"
      [] OTHER -> "invalid"

UpdateChoices == {"1", "2", "3", "4", "5", "x"}

updateVehicle(RouteInputs, TargetInputs, StatusChoices, CapacityInputs, SaveResults) ==
    /\ report' = NoReport
    /\ UNCHANGED <<drivers, collections, expenses>>
    /\ IF Len(vehicles) = 0 THEN UpdateVehicleReturns("noVehicles")
       ELSE \E registration \in RegistrationInputs(vehicles), choice \in UpdateChoices :
            LET vi == findVehicleByRegistration(vehicles, registration)
            IN IF vi = 0 THEN UpdateVehicleReturns("vehicleNotFound")
               ELSE CASE choice = "1" ->
                        \E newRoute \in RouteInputs :
                            UpdateVehicleSaves(
                                IF newRoute # "" THEN [vehicles EXCEPT ![vi].route = newRoute]
                                ELSE vehicles, vi, SaveResults)
                      [] choice = "2" ->
                        \E targetInput \in TargetInputs :
                            UpdateVehicleSaves(UpdatedTarget(vehicles, vi, targetInput),
                                               vi, SaveResults)
                      [] choice = "3" ->
                        \E statusChoice \in StatusChoices :
                            IF StatusOfChoice(statusChoice) = "invalid"
                            THEN UpdateVehicleReturns("invalidStatus")
                            ELSE UpdateVehicleSaves(
                                    [vehicles EXCEPT ![vi].status = StatusOfChoice(statusChoice)],
                                    vi, SaveResults)
                      [] choice = "4" ->
                        \E capacityInput \in CapacityInputs :
                            UpdateVehicleSaves(UpdatedCapacity(vehicles, vi, capacityInput),
                                               vi, SaveResults)
                      [] choice = "5" -> UpdateVehicleReturns("cancelled")
                      [] OTHER -> UpdateVehicleReturns("invalidOption")

----------------------------------------------------------------------------
(* drivers.ts (src/unnamed/part_000) *)

\* the driver that is pushed onto the loaded array ds
NewDriver(ds, name, licenseExpiry) ==
    [id |-> generateId("d", Ids(ds)),
     name |-> name,
     licenseExpiry |-> licenseExpiry,
     assignedVehicleId |-> NULL]

addDriver(name, licenseExpiry, ok) ==
    LET newDriver == NewDriver(drivers, name, licenseExpiry)
    IN /\ drivers' = writeJSONFile(drivers, Append(drivers, newDriver), ok)
       /\ last' = [Ended("addDriver", IF ok THEN "saved" ELSE "saveFailed")
                      EXCEPT !.driverId = newDriver.id]
       /\ report' = NoReport
       /\ UNCHANGED <<vehicles, collections, expenses>>

UnassignPreviousDriver_Forgotten(ds, vehicle) == ds

\* lines 297-300: the vehicle's current driver loses its vehicle
UnassignPreviousDriver(ds, vehicle) ==
    LET cur == FindIndex(ds, LAMBDA d : d.id = vehicle.assignedDriverId)
    IN IF cur # 0 THEN [ds EXCEPT ![cur].assignedVehicleId = NULL] ELSE ds

UnassignPreviousVehicle_Forgotten(vs, selectedDriver, vehicle) == vs

\* lines 303-309: the driver's previous vehicle loses its driver
UnassignPreviousVehicle(vs, selectedDriver, vehicle) ==
    IF selectedDriver.assignedVehicleId # NULL
       /\ selectedDriver.assignedVehicleId # vehicle.id
    THEN LET prev == FindIndex(vs, LAMBDA v : v.id = selectedDriver.assignedVehicleId)
         IN IF prev # 0 THEN [vs EXCEPT ![prev].assignedDriverId = NULL] ELSE vs
    ELSE vs

\* an assignment that takes every other driver off its vehicle
MakeAssignmentDrivers_OnlyDriver(ds, di, vehicleId) ==
    [k \in 1..Len(ds) |->
        [ds[k] EXCEPT !.assignedVehicleId = IF k = di THEN vehicleId ELSE NULL]]

\* lines 311-313: the two references of the new assignment
MakeAssignmentDrivers(ds, di, vehicleId) ==
    [ds EXCEPT ![di].assignedVehicleId = vehicleId]

MakeAssignmentVehicles_Toggle(vs, vi, driverId) ==
    [vs EXCEPT ![vi].assignedDriverId =
        IF vs[vi].assignedDriverId = driverId THEN NULL ELSE driverId]

MakeAssignmentVehicles(vs, vi, driverId) ==
    [vs EXCEPT ![vi].assignedDriverId = driverId]

\* line 316: saveDrivers(drivers) && saveVehicles(vehicles); saveVehicles is
\* not called when saveDrivers returned false
SaveAssignmentDrivers(file, data, okD) == writeJSONFile(file, data, okD)

SaveAssignmentVehicles_NoShortCircuit(file, data, okD, okV) ==
    writeJSONFile(file, data, okV)

SaveAssignmentVehicles(file, data, okD, okV) ==
    IF okD THEN writeJSONFile(file, data, okV) ELSE file

SaveOutcome(okD, okV) ==
    IF okD /\ okV THEN "saved"
    ELSE IF okD THEN "vehiclesSaveFailed"
    ELSE "driversSaveFailed"

\* a return that has already taken the drivers off their vehicles
AssignReturns_Cleared(outcome) ==
    /\ last' = Ended("assign", outcome)
    /\ report' = NoReport
    /\ drivers' = [k \in 1..Len(drivers) |-> [drivers[k] EXCEPT !.assignedVehicleId = NULL]]
    /\ UNCHANGED <<vehicles, collections, expenses>>

\* a return before anything was changed (lines 218-294)
AssignReturns(outcome) ==
    /\ last' = Ended("assign", outcome)
    /\ report' = NoReport
    /\ UNCHANGED <<vehicles, drivers, collections, expenses>>

\* lines 285-328, once the driver and the vehicle are chosen
AssignSelected(di, vi, SaveResults) ==
    LET selectedDriver == drivers[di]
        vehicle == vehicles[vi]
        replaces == vehicle.assignedDriverId # NULL
                    /\ vehicle.assignedDriverId # selectedDriver.id
    IN \E confirmReplace \in (IF replaces THEN BOOLEAN ELSE {TRUE}) :
        IF replaces /\ ~confirmReplace THEN AssignReturns("replaceDeclined")
        ELSE LET ds1 == IF replaces THEN UnassignPreviousDriver(drivers, vehicle)
                        ELSE drivers
                 vs1 == UnassignPreviousVehicle(vehicles, selectedDriver, vehicle)
                 ds2 == MakeAssignmentDrivers(ds1, di, vehicle.id)
                 vs2 == MakeAssignmentVehicles(vs1, vi, selectedDriver.id)
             IN \E okD \in SaveResults, okV \in SaveResults :
                    /\ drivers' = SaveAssignmentDrivers(drivers, ds2, okD)
                    /\ vehicles' = SaveAssignmentVehicles(vehicles, vs2, okD, okV)
                    /\ last' = [op |-> "assign",
                                outcome |-> SaveOutcome(okD, okV),
                                driverId |-> selectedDriver.id,
                                vehicleId |-> vehicle.id,
                                prevDriverId |-> vehicle.assignedDriverId,
                                prevVehicleId |-> selectedDriver.assignedVehicleId]
                    /\ report' = NoReport
                    /\ UNCHANGED <<collections, expenses>>

\* the whole handler; each \E is a prompt, asked only where the code asks it.
\* SaveResults is the set of results a save can have.
assignDriverToVehicle(SaveResults) ==
    IF Len(drivers) = 0 THEN AssignReturns("noDrivers")
    ELSE IF Len(vehicles) = 0 THEN AssignReturns("noVehicles")
    ELSE \E term \in SearchTerms :
        LET matching == findDriverByName(drivers, term)
        IN IF Len(matching) = 0 THEN AssignReturns("noDriverMatches")
           ELSE \E choice \in (IF Len(matching) = 1 THEN {1} ELSE 0..Len(matching)) :
                IF choice < 1 THEN AssignReturns("invalidSelection")
                ELSE LET di == matching[choice]
                         assigned == drivers[di].assignedVehicleId # NULL
                     IN \E confirmReassign \in (IF assigned THEN BOOLEAN ELSE {TRUE}) :
                        IF assigned /\ ~confirmReassign THEN AssignReturns("cancelled")
                        ELSE \E registration \in RegistrationInputs(vehicles) :
                             LET vi == findVehicleByRegistration(vehicles, registration)
                             IN IF vi = 0 THEN AssignReturns("vehicleNotFound")
                                ELSE AssignSelected(di, vi, SaveResults)

----------------------------------------------------------------------------
(* Numbers: a quotient of two numbers is kept as a fraction in lowest terms *)

Abs(n) == IF n < 0 THEN -n ELSE n

RECURSIVE GCD(_, _)
GCD(a, b) == IF b = 0 THEN a ELSE GCD(b, a % b)

\* n / d for d > 0
Frac(n, d) ==
    LET g == GCD(Abs(n), d)
    IN [num |-> n \div g, den |-> d \div g]

Zero == Frac(0, 1)
FracLess(a, b) == a.num * b.den < b.num * a.den

\* Number.prototype.toFixed(1) of a non-negative number, in tenths: the
\* nearest tenth, the larger one when two are equally near
ToFixed1(a) == (2 * 10 * a.num + a.den) \div (2 * a.den)

----------------------------------------------------------------------------
(* Array.prototype.sort((a, b) => b.key - a.key): the sort is stable, so it *)
(* yields the one order that is descending by key and keeps the elements   *)
(* with equal keys in their original order                                 *)

\* keys is the sequence of the elements' keys (fractions); the result is the
\* sequence of the elements' original positions, in sorted order
RECURSIVE InsertDesc(_, _, _)
InsertDesc(order, keys, i) ==
    IF order = <<>> THEN <<i>>
    ELSE IF FracLess(keys[Head(order)], keys[i])
         THEN <<i>> \o order
         ELSE <<Head(order)>> \o InsertDesc(Tail(order), keys, i)

RECURSIVE SortedPrefix(_, _)
SortedPrefix(keys, n) ==
    IF n = 0 THEN <<>> ELSE InsertDesc(SortedPrefix(keys, n - 1), keys, n)

SortDescOrder(keys) == SortedPrefix(keys, Len(keys))

\* the elements of seq in the order given by their keys
SortDesc(seq, keys) ==
    LET order == SortDescOrder(keys)
    IN [k \in 1..Len(seq) |-> seq[order[k]]]

\* Array.prototype.slice(0, n) and slice(-n)
SliceFirst(seq, n) == SubSeq(seq, 1, IF Len(seq) < n THEN Len(seq) ELSE n)
SliceLast(seq, n) == SubSeq(seq, IF Len(seq) < n THEN 1 ELSE Len(seq) - n + 1, Len(seq))

\* Array.prototype.reverse
Reverse(seq) == [k \in 1..Len(seq) |-> seq[Len(seq) + 1 - k]]

\* Array.prototype.splice(index, 1)
RemoveAt_Keeps(seq, index) == seq
RemoveAt(seq, index) == SubSeq(seq, 1, index - 1) \o SubSeq(seq, index + 1, Len(seq))

----------------------------------------------------------------------------
(* collections.ts (src/README.md) *)

\* a return before anything was saved
RecordCollectionReturns(outcome) ==
    /\ last' = Ended("recordCollection", outcome)
    /\ report' = NoReport
    /\ UNCHANGED <<vehicles, drivers, collections, expenses>>

\* lines 241-252: the collection that is pushed onto the loaded array cs
NewCollection(cs, vehicleId, driverId, date, amount) ==
    [id |-> generateId("c", Ids(cs)),
     vehicleId |-> vehicleId,
     driverId |-> driverId,
     date |-> date,
     amount |-> amount]

\* lines 195-258: the amount, the driver, the new id, the push and the save;
\* kept is the loaded array, less the collection that is overwritten
RecordCollectionSaves(vi, assignedDriver, date, kept, replaced, Amounts, SaveResults) ==
    \E amount \in Amounts[vi] :
    \E driverChoice \in (IF assignedDriver # 0 THEN {0} ELSE 1..(Len(drivers) + 1)) :
    \E ok \in SaveResults :
        LET driverId == IF assignedDriver # 0 THEN drivers[assignedDriver].id
                        ELSE IF driverChoice <= Len(drivers) THEN drivers[driverChoice].id
                        ELSE UNASSIGNED
            newCollection == NewCollection(kept, vehicles[vi].id, driverId, date, amount)
        IN /\ amount >= 0
           /\ collections' = writeJSONFile(collections, Append(kept, newCollection), ok)
           /\ last' = Ended("recordCollection",
                            IF ~ok THEN "saveFailed"
                            ELSE IF replaced THEN "replaced" ELSE "recorded")
           /\ report' = NoReport
           /\ UNCHANGED <<vehicles, drivers, expenses>>

\* the whole handler; Dates[n] and Amounts[n] are what the operator may type
\* as the date and the amount of a collection of the n-th vehicle, MaxLen
\* bounds the length of the stored array
recordCollection(Dates, Amounts, SaveResults, MaxLen) ==
    IF Len(vehicles) = 0 THEN RecordCollectionReturns("noVehicles")
    ELSE \E registration \in RegistrationInputs(vehicles) :
        LET vi == findVehicleByRegistration(vehicles, registration)
        IN IF vi = 0 THEN RecordCollectionReturns("vehicleNotFound")
           ELSE LET vehicle == vehicles[vi]
                    assignedDriver ==
                        FindIndex(drivers, LAMBDA d : d.id = vehicle.assignedDriverId)
                IN \E proceed \in (IF assignedDriver = 0 THEN BOOLEAN ELSE {TRUE}) :
                   IF ~proceed THEN RecordCollectionReturns("cancelled")
                   ELSE \E date \in Dates[vi] :
                        LET existing == FindIndex(collections,
                                LAMBDA c : c.vehicleId = vehicle.id /\ c.date = date)
                        IN IF existing = 0
                           THEN /\ Len(collections) < MaxLen
                                /\ RecordCollectionSaves(vi, assignedDriver, date,
                                        collections, FALSE, Amounts, SaveResults)
                           ELSE \E overwrite \in BOOLEAN :
                                IF ~overwrite THEN RecordCollectionReturns("declined")
                                ELSE RecordCollectionSaves(vi, assignedDriver, date,
                                        RemoveAt(collections, existing), TRUE,
                                        Amounts, SaveResults)

\* a filter that compares only the last digit of the ids
CollectionsOfVehicle_LastDigit(cs, vehicleId) ==
    Filter(cs, LAMBDA c : c.vehicleId[Len(c.vehicleId)] = vehicleId[Len(vehicleId)])
\* collections.filter(c => c.vehicleId === vehicle.id)
CollectionsOfVehicle(cs, vehicleId) == Filter(cs, LAMBDA c : c.vehicleId = vehicleId)

\* lines 512-536: the performance entry of one vehicle
VehiclePerformance_TotalOverTarget(vehicle, cs) ==
    LET vehicleCollections == CollectionsOfVehicle(cs, vehicle.id)
        totalAmount == SumAmount(vehicleCollections)
    IN IF Len(vehicleCollections) = 0
       THEN [vehicleId |-> vehicle.id, totalCollections |-> 0, totalAmount |-> 0,
             averageAmount |-> Zero, percentOfTarget |-> Zero]
       ELSE [vehicleId |-> vehicle.id,
             totalCollections |-> Len(vehicleCollections),
             totalAmount |-> totalAmount,
             averageAmount |-> Frac(totalAmount, Len(vehicleCollections)),
             percentOfTarget |-> Frac(totalAmount * 100, vehicle.dailyTarget)]
VehiclePerformance(vehicle, cs) ==
    LET vehicleCollections == CollectionsOfVehicle(cs, vehicle.id)
        totalAmount == SumAmount(vehicleCollections)
    IN IF Len(vehicleCollections) = 0
       THEN [vehicleId |-> vehicle.id, totalCollections |-> 0, totalAmount |-> 0,
             averageAmount |-> Zero, percentOfTarget |-> Zero]
       ELSE [vehicleId |-> vehicle.id,
             totalCollections |-> Len(vehicleCollections),
             totalAmount |-> totalAmount,
             averageAmount |-> Frac(totalAmount, Len(vehicleCollections)),
             percentOfTarget |->
                Frac(totalAmount * 100, Len(vehicleCollections) * vehicle.dailyTarget)]

\* line 539: performance.sort((a, b) => b.percentOfTarget - a.percentOfTarget)
RankByPercentOfTarget(performance) ==
    SortDesc(performance, [k \in 1..Len(performance) |-> performance[k].percentOfTarget])

TopCount == 3
BottomCount == 3

\* lines 543-552: the first three entries, an entry without collections is skipped
TopPerformers(performance) ==
    Filter(SliceFirst(performance, TopCount), LAMBDA p : p.totalCollections # 0)

\* line 556: performance.filter(p => p.totalCollections > 0).slice(-3).reverse()
BottomPerformers_Unfiltered(performance) ==
    Reverse(SliceLast(performance, BottomCount))
BottomPerformers(performance) ==
    Reverse(SliceLast(Filter(performance, LAMBDA p : p.totalCollections > 0), BottomCount))

\* what a printed entry shows: the vehicle and its achievement to one decimal
Printed(entries) ==
    [k \in 1..Len(entries) |->
        [vehicleId |-> entries[k].vehicleId,
         achievement |-> ToFixed1(entries[k].percentOfTarget)]]

viewPerformanceRankings ==
    /\ last' = Ended("viewPerformanceRankings",
                     IF Len(collections) = 0 THEN "noData" ELSE "shown")
    /\ report' =
        IF Len(collections) = 0 THEN [kind |-> "rankings", shown |-> FALSE]
        ELSE LET performance == RankByPercentOfTarget(
                    [k \in 1..Len(vehicles) |-> VehiclePerformance(vehicles[k], collections)])
             IN [kind |-> "rankings", shown |-> TRUE,
                 performance |-> performance,
                 top |-> Printed(TopPerformers(performance)),
                 bottom |-> Printed(BottomPerformers(performance))]
    /\ UNCHANGED <<vehicles, drivers, collections, expenses>>

\* a Date is the number of clock ticks since the epoch; new Date('YYYY-MM-DD')
\* is the midnight that starts the day, new Date() is the clock's reading
TicksPerDay == 2
InstantOfDate(date) == date * TicksPerDay

\* setDate(getDate() - days) on a reading of the clock
DaysBefore(instant, days) == instant - days * TicksPerDay

\* utils.ts isValidDate: an input that is no date is written -1
InvalidDate == 0 - 1
isValidDate(dateString) == dateString >= 0

\* lines 471-474: the collections dated within [startDate, endDate]
PeriodCollections(cs, startDate, endDate) ==
    Filter(cs, LAMBDA c : /\ InstantOfDate(c.date) >= startDate
                          /\ InstantOfDate(c.date) <= endDate)

PeriodReturns(outcome) ==
    /\ last' = Ended("calculatePeriodTotals", outcome)
    /\ report' = [kind |-> "period", shown |-> FALSE]
    /\ UNCHANGED <<vehicles, drivers, collections, expenses>>

\* line 484: totalAmount / periodCollections.length
PeriodAverage_PerDay(totalAmount, periodCollections, startDate, endDate) ==
    Frac(totalAmount * TicksPerDay, endDate - startDate + TicksPerDay)
PeriodAverage(totalAmount, periodCollections, startDate, endDate) ==
    Frac(totalAmount, Len(periodCollections))

\* lines 470-491: the summary of the period
PeriodSummary(periodLabel, startDate, endDate) ==
    LET periodCollections == PeriodCollections(collections, startDate, endDate)
        totalAmount == SumAmount(periodCollections)
    IN IF Len(periodCollections) = 0
       THEN /\ last' = Ended("calculatePeriodTotals", "noneInPeriod")
            /\ report' = [kind |-> "period", shown |-> FALSE,
                          periodLabel |-> periodLabel,
                          startDate |-> startDate, endDate |-> endDate]
            /\ UNCHANGED <<vehicles, drivers, collections, expenses>>
       ELSE /\ last' = Ended("calculatePeriodTotals", "shown")
            /\ report' = [kind |-> "period", shown |-> TRUE,
                          periodLabel |-> periodLabel,
                          startDate |-> startDate, endDate |-> endDate,
                          totalCollections |-> Len(periodCollections),
                          totalAmount |-> totalAmount,
                          averageAmount |-> PeriodAverage(totalAmount, periodCollections,
                                                          startDate, endDate)]
            /\ UNCHANGED <<vehicles, drivers, collections, expenses>>

\* the whole handler; Clock is what new Date() may read, a later reading is
\* never earlier; DateInputs is what the operator may type as a date
calculatePeriodTotals(Clock, DateInputs) ==
    IF Len(collections) = 0 THEN PeriodReturns("noData")
    ELSE \E choice \in {"1", "2", "3", "4", "other"} :
            IF choice = "other" THEN PeriodReturns("invalidOption")
            ELSE IF choice = "4"
            THEN \E startInput \in DateInputs, endInput \in DateInputs :
                    IF ~isValidDate(startInput) \/ ~isValidDate(endInput)
                    THEN PeriodReturns("invalidDate")
                    ELSE PeriodSummary("custom", InstantOfDate(startInput),
                                       InstantOfDate(endInput))
            ELSE \E endNow \in Clock :
                 \E startNow \in {t \in Clock : t >= endNow} :
                    IF choice = "1" THEN PeriodSummary("Today", startNow, endNow)
                    ELSE IF choice = "2"
                    THEN PeriodSummary("Last 7 Days", DaysBefore(startNow, 7), endNow)
                    ELSE PeriodSummary("Last 30 Days", DaysBefore(startNow, 30), endNow)

----------------------------------------------------------------------------
(* drivers.ts (src/unnamed/part_000): viewDriverPerformance *)

\* collections.filter(c => c.driverId === driver.id)
CollectionsOfDriver_OrUnassigned(cs, driverId) ==
    Filter(cs, LAMBDA c : c.driverId = driverId \/ c.driverId = UNASSIGNED)
CollectionsOfDriver(cs, driverId) == Filter(cs, LAMBDA c : c.driverId = driverId)

\* lines 433-454: the performance entry of one driver
DriverPerformance(driver, cs) ==
    LET driverCollections == CollectionsOfDriver(cs, driver.id)
        totalAmount == SumAmount(driverCollections)
    IN IF Len(driverCollections) = 0
       THEN [driverId |-> driver.id, totalCollections |-> 0, totalAmount |-> 0,
             averageAmount |-> Zero]
       ELSE [driverId |-> driver.id,
             totalCollections |-> Len(driverCollections),
             totalAmount |-> totalAmount,
             averageAmount |-> Frac(totalAmount, Len(driverCollections))]

\* line 457: performance.sort((a, b) => b.averageAmount - a.averageAmount)
RankByAverageAmount(performance) ==
    SortDesc(performance, [k \in 1..Len(performance) |-> performance[k].averageAmount])

viewDriverPerformance ==
    /\ last' = Ended("viewDriverPerformance",
                     IF Len(drivers) = 0 THEN "noDrivers"
                     ELSE IF Len(collections) = 0 THEN "noData" ELSE "shown")
    /\ report' =
        IF Len(drivers) = 0 \/ Len(collections) = 0
        THEN [kind |-> "drivers", shown |-> FALSE]
        ELSE [kind |-> "drivers", shown |-> TRUE,
              performance |-> RankByAverageAmount(
                    [k \in 1..Len(drivers) |-> DriverPerformance(drivers[k], collections)])]
    /\ UNCHANGED <<vehicles, drivers, collections, expenses>>

----------------------------------------------------------------------------
(* drivers.ts (src/unnamed/part_000): viewExpiringLicenses *)

\* Math.ceil(n / d) and Math.floor(n / d) for d > 0
Floor(n, d) == n \div d
Ceil(n, d) == 0 - Floor(0 - n, d)

\* the day of an instant
DayOf(instant) == Floor(instant, TicksPerDay)

\* utils.ts daysUntil, with the reading of the clock as an argument:
\* Math.ceil((targetDate.getTime() - today.getTime()) / (1000 * 60 * 60 * 24))
daysUntil_Floor(dateString, now) == Floor(InstantOfDate(dateString) - now, TicksPerDay)
daysUntil(dateString, now) == Ceil(InstantOfDate(dateString) - now, TicksPerDay)

\* lines 355-373: the drivers of the chosen timeframe
LicensesOfTimeframe(ds, choice, now) ==
    IF choice = "1" THEN Filter(ds, LAMBDA d : daysUntil(d.licenseExpiry, now) < 0)
    ELSE IF choice = "2"
    THEN Filter(ds, LAMBDA d : /\ daysUntil(d.licenseExpiry, now) >= 0
                               /\ daysUntil(d.licenseExpiry, now) <= 7)
    ELSE Filter(ds, LAMBDA d : /\ daysUntil(d.licenseExpiry, now) >= 0
                               /\ daysUntil(d.licenseExpiry, now) <= 30)

\* what is printed of a listed driver: the driver and the days until the expiry
LicenseLines(ds, now) ==
    [k \in 1..Len(ds) |->
        [driverId |-> ds[k].id, days |-> daysUntil(ds[k].licenseExpiry, now)]]

LicensesReturn(outcome) ==
    /\ last' = Ended("viewExpiringLicenses", outcome)
    /\ report' = [kind |-> "licenses", shown |-> FALSE]
    /\ UNCHANGED <<vehicles, drivers, collections, expenses>>

\* the whole handler; the readings of the clock during one run are one
\* reading, today is its day
viewExpiringLicenses(Clock) ==
    IF Len(drivers) = 0 THEN LicensesReturn("noDrivers")
    ELSE \E choice \in {"1", "2", "3", "other"} :
            IF choice = "other" THEN LicensesReturn("invalidOption")
            ELSE \E now \in Clock :
                /\ last' = Ended("viewExpiringLicenses", "shown")
                /\ report' = [kind |-> "licenses", shown |-> TRUE,
                              choice |-> choice,
                              today |-> DayOf(now),
                              listed |-> LicenseLines(
                                  LicensesOfTimeframe(drivers, choice, now), now)]
                /\ UNCHANGED <<vehicles, drivers, collections, expenses>>

----------------------------------------------------------------------------
(* expenses.ts (src/unnamed/part_000): recordExpense *)

RecordExpenseReturns(outcome) ==
    /\ last' = Ended("recordExpense", outcome)
    /\ report' = NoReport
    /\ UNCHANGED <<vehicles, drivers, collections, expenses>>

\* the expense that is pushed onto the loaded array es
NewExpense(es, vehicleId, category, amount, date) ==
    [id |-> generateId("e", Ids(es)),
     vehicleId |-> vehicleId,
     category |-> category,
     amount |-> amount,
     date |-> date]

\* the whole handler; a rejected category, description, amount or date is asked
\* again, so only accepted inputs reach the save
recordExpense(Categories, AmountInputs, DateInputs, SaveResults, MaxLen) ==
    IF Len(vehicles) = 0 THEN RecordExpenseReturns("noVehicles")
    ELSE \E registration \in RegistrationInputs(vehicles) :
        LET vi == findVehicleByRegistration(vehicles, registration)
        IN IF vi = 0 THEN RecordExpenseReturns("vehicleNotFound")
           ELSE \E category \in Categories, amount \in AmountInputs,
                   date \in DateInputs, ok \in SaveResults :
                LET newExpense == NewExpense(expenses, vehicles[vi].id, category,
                                             amount, date)
                IN /\ Len(expenses) < MaxLen
                   /\ amount > 0
                   /\ isValidDate(date)
                   /\ expenses' = writeJSONFile(expenses, Append(expenses, newExpense), ok)
                   /\ last' = Ended("recordExpense", IF ok THEN "recorded" ELSE "saveFailed")
                   /\ report' = NoReport
                   /\ UNCHANGED <<vehicles, drivers, collections>>

----------------------------------------------------------------------------
(* expenses.ts (src/unnamed/part_000): calculateNetProfit *)

\* a division of numbers: by zero it gives NaN for 0 / 0 and Infinity or
\* -Infinity otherwise, written as fractions with denominator 0
Divide(n, d) ==
    IF d # 0 THEN Frac(n, d)
    ELSE IF n > 0 THEN Infinity ELSE IF n < 0 THEN NegativeInfinity ELSE NaN

\* dates are counted in days from 2000-01-01, the start of 'All Time'
FirstDayOf2000 == 0

ExpenseCategories == <<"fuel", "repair", "fine", "insurance", "other">>

\* lines 1048-1052: the vehicle's collections dated within [startDate, endDate]
VehiclePeriodCollections_BeforeEnd(cs, vehicleId, startDate, endDate) ==
    Filter(cs, LAMBDA c : /\ c.vehicleId = vehicleId
                          /\ InstantOfDate(c.date) >= startDate
                          /\ InstantOfDate(c.date) < endDate)
VehiclePeriodCollections(cs, vehicleId, startDate, endDate) ==
    Filter(cs, LAMBDA c : /\ c.vehicleId = vehicleId
                          /\ InstantOfDate(c.date) >= startDate
                          /\ InstantOfDate(c.date) <= endDate)

\* lines 1055-1059: the vehicle's expenses dated within [startDate, endDate]
VehiclePeriodExpenses(es, vehicleId, startDate, endDate) ==
    Filter(es, LAMBDA e : /\ e.vehicleId = vehicleId
                          /\ InstantOfDate(e.date) >= startDate
                          /\ InstantOfDate(e.date) <= endDate)

\* lines 1067-1077 and 1190-1206: the total of a category
CategoryTotal(es, category) == SumAmount(Filter(es, LAMBDA e : e.category = category))
CategoryCount(es, category) == Len(Filter(es, LAMBDA e : e.category = category))

NetProfitReturns(outcome) ==
    /\ last' = Ended("calculateNetProfit", outcome)
    /\ report' = [kind |-> "netProfit", shown |-> FALSE]
    /\ UNCHANGED <<vehicles, drivers, collections, expenses>>

\* lines 1109-1118: the metrics, computed when the period has a collection
NetProfitMetrics(vehicleCollections, totalCollections, totalExpenses) ==
    IF Len(vehicleCollections) > 0
    THEN [shown |-> TRUE,
          avgDailyCollection |-> Divide(totalCollections, Len(vehicleCollections)),
          avgDailyExpense |-> Divide(totalExpenses, Len(vehicleCollections)),
          profitMargin |-> Divide((totalCollections - totalExpenses) * 100,
                                  totalCollections)]
    ELSE [shown |-> FALSE]

\* lines 1047-1118: the analysis of the vehicle over the period
NetProfitSummary(vehicle, periodLabel, startDate, endDate) ==
    LET vehicleCollections ==
            VehiclePeriodCollections(collections, vehicle.id, startDate, endDate)
        vehicleExpenses ==
            VehiclePeriodExpenses(expenses, vehicle.id, startDate, endDate)
        totalCollections == SumAmount(vehicleCollections)
        totalExpenses == SumAmount(vehicleExpenses)
    IN /\ last' = Ended("calculateNetProfit", "shown")
       /\ report' = [kind |-> "netProfit", shown |-> TRUE,
                     vehicleId |-> vehicle.id,
                     periodLabel |-> periodLabel,
                     startDate |-> startDate, endDate |-> endDate,
                     collectionCount |-> Len(vehicleCollections),
                     expenseCount |-> Len(vehicleExpenses),
                     totalCollections |-> totalCollections,
                     totalExpenses |-> totalExpenses,
                     netProfit |-> totalCollections - totalExpenses,
                     expensesByCategory |->
                        [k \in 1..Len(ExpenseCategories) |->
                            CategoryTotal(vehicleExpenses, ExpenseCategories[k])],
                     metrics |-> NetProfitMetrics(vehicleCollections, totalCollections,
                                                  totalExpenses)]
       /\ UNCHANGED <<vehicles, drivers, collections, expenses>>

\* the whole handler; the end of the period is read from the clock before the
\* start is
calculateNetProfit(Clock, DateInputs) ==
    IF Len(vehicles) = 0 THEN NetProfitReturns("noVehicles")
    ELSE \E registration \in RegistrationInputs(vehicles) :
        LET vi == findVehicleByRegistration(vehicles, registration)
        IN IF vi = 0 THEN NetProfitReturns("vehicleNotFound")
           ELSE \E choice \in {"1", "2", "3", "4", "other"} :
                IF choice = "other" THEN NetProfitReturns("invalidOption")
                ELSE IF choice = "4"
                THEN \E startInput \in DateInputs, endInput \in DateInputs :
                        IF ~isValidDate(startInput) \/ ~isValidDate(endInput)
                        THEN NetProfitReturns("invalidDate")
                        ELSE NetProfitSummary(vehicles[vi], "custom",
                                              InstantOfDate(startInput),
                                              InstantOfDate(endInput))
                ELSE \E endNow \in Clock :
                     IF choice = "3"
                     THEN NetProfitSummary(vehicles[vi], "All Time",
                                           InstantOfDate(FirstDayOf2000), endNow)
                     ELSE \E startNow \in {t \in Clock : t >= endNow} :
                        IF choice = "1"
                        THEN NetProfitSummary(vehicles[vi], "Last 7 Days",
                                              DaysBefore(startNow, 7), endNow)
                        ELSE NetProfitSummary(vehicles[vi], "Last 30 Days",
                                              DaysBefore(startNow, 30), endNow)

\* lines 1126-1237, generateExpenseSummary
ExpenseSummaryReturns(outcome) ==
    /\ last' = Ended("generateExpenseSummary", outcome)
    /\ report' = [kind |-> "expenses", shown |-> FALSE]
    /\ UNCHANGED <<vehicles, drivers, collections, expenses>>

\* lines 1174-1177: the expenses dated within [startDate, endDate]
PeriodExpenses(es, startDate, endDate) ==
    Filter(es, LAMBDA e : /\ InstantOfDate(e.date) >= startDate
                          /\ InstantOfDate(e.date) <= endDate)

\* line 1220: totalExpenses > 0 ? (total / totalExpenses) * 100 : 0
CategoryPercentage(total, totalExpenses) ==
    IF totalExpenses > 0 THEN Divide(total * 100, totalExpenses) ELSE Zero

\* line 1221: count > 0 ? total / count : 0
CategoryAverage_PerExpense(total, count, periodExpenses) ==
    IF Len(periodExpenses) > 0 THEN Divide(total, Len(periodExpenses)) ELSE Zero
CategoryAverage(total, count, periodExpenses) ==
    IF count > 0 THEN Divide(total, count) ELSE Zero

\* lines 1215-1230: the row of one category
CategoryRow(category, periodExpenses, totalExpenses) ==
    LET count == CategoryCount(periodExpenses, category)
        total == CategoryTotal(periodExpenses, category)
    IN [category |-> category,
        count |-> count,
        total |-> total,
        percentage |-> CategoryPercentage(total, totalExpenses),
        average |-> CategoryAverage(total, count, periodExpenses)]

\* lines 1174-1233: the summary of the period
ExpenseSummary(periodLabel, startDate, endDate) ==
    LET periodExpenses == PeriodExpenses(expenses, startDate, endDate)
        categoryTotals == [k \in 1..Len(ExpenseCategories) |->
                            CategoryTotal(periodExpenses, ExpenseCategories[k])]
        totalExpenses == SumNumbers(categoryTotals)
    IN IF Len(periodExpenses) = 0
       THEN /\ last' = Ended("generateExpenseSummary", "noneInPeriod")
            /\ report' = [kind |-> "expenses", shown |-> FALSE,
                          periodLabel |-> periodLabel,
                          startDate |-> startDate, endDate |-> endDate]
            /\ UNCHANGED <<vehicles, drivers, collections, expenses>>
       ELSE /\ last' = Ended("generateExpenseSummary", "shown")
            /\ report' = [kind |-> "expenses", shown |-> TRUE,
                          periodLabel |-> periodLabel,
                          startDate |-> startDate, endDate |-> endDate,
                          rows |-> [k \in 1..Len(ExpenseCategories) |->
                                      CategoryRow(ExpenseCategories[k], periodExpenses,
                                                  totalExpenses)],
                          expenseCount |-> Len(periodExpenses),
                          totalExpenses |-> totalExpenses]
            /\ UNCHANGED <<vehicles, drivers, collections, expenses>>

\* the whole handler
generateExpenseSummary(Clock) ==
    IF Len(expenses) = 0 THEN ExpenseSummaryReturns("noData")
    ELSE \E choice \in {"1", "2", "3", "other"} :
            IF choice = "other" THEN ExpenseSummaryReturns("invalidOption")
            ELSE \E endNow \in Clock :
                 IF choice = "3"
                 THEN ExpenseSummary("All Time", InstantOfDate(FirstDayOf2000), endNow)
                 ELSE \E startNow \in {t \in Clock : t >= endNow} :
                    IF choice = "1"
                    THEN ExpenseSummary("Last 7 Days", DaysBefore(startNow, 7), endNow)
                    ELSE ExpenseSummary("Last 30 Days", DaysBefore(startNow, 30), endNow)

----------------------------------------------------------------------------
(* reports.ts *)

\* expenses.filter(e => e.vehicleId === vehicle.id)
ExpensesOfVehicle(es, vehicleId) == Filter(es, LAMBDA e : e.vehicleId = vehicleId)

\* a whole number as a sort key
Whole(n) == Frac(n, 1)

\* lines 118-149: the fleet report's entry of one vehicle
FleetVehiclePerformance(vehicle, cs, es) ==
    LET vehicleCollections == CollectionsOfVehicle(cs, vehicle.id)
        totalCollections == SumAmount(vehicleCollections)
        totalExpenses == SumAmount(ExpensesOfVehicle(es, vehicle.id))
    IN IF Len(vehicleCollections) = 0
       THEN [vehicleId |-> vehicle.id, totalCollections |-> 0, totalExpenses |-> 0,
             netProfit |-> 0, averageDaily |-> Zero, targetAchievement |-> Zero,
             collectionCount |-> 0]
       ELSE [vehicleId |-> vehicle.id,
             totalCollections |-> totalCollections,
             totalExpenses |-> totalExpenses,
             netProfit |-> totalCollections - totalExpenses,
             averageDaily |-> Frac(totalCollections, Len(vehicleCollections)),
             targetAchievement |->
                Frac(totalCollections * 100, Len(vehicleCollections) * vehicle.dailyTarget),
             collectionCount |-> Len(vehicleCollections)]

\* line 152: vehiclePerformance.sort((a, b) => b.netProfit - a.netProfit)
RankByNetProfit(performance) ==
    SortDesc(performance, [k \in 1..Len(performance) |-> Whole(performance[k].netProfit)])

\* lines 171-193: the fleet report's entry of one driver
FleetDriverPerformance(driver, cs) ==
    LET driverCollections == CollectionsOfDriver(cs, driver.id)
        totalCollections == SumAmount(driverCollections)
    IN IF Len(driverCollections) = 0
       THEN [driverId |-> driver.id, totalCollections |-> 0, averageDaily |-> Zero,
             collectionCount |-> 0]
       ELSE [driverId |-> driver.id,
             totalCollections |-> totalCollections,
             averageDaily |-> Frac(totalCollections, Len(driverCollections)),
             collectionCount |-> Len(driverCollections)]

\* line 196: driverPerformance.sort((a, b) => b.averageDaily - a.averageDaily)
RankByAverageDaily(performance) ==
    SortDesc(performance, [k \in 1..Len(performance) |-> performance[k].averageDaily])

FleetTopCount == 5

\* lines 154 and 198: slice(0, 5), an entry without collections is skipped
FleetTop(performance) ==
    Filter(SliceFirst(performance, FleetTopCount), LAMBDA p : p.collectionCount # 0)

UnderperformingBelow == 80

\* lines 253-255: the vehicles with a collection that achieve less than 80%
\* of their target
UnderperformingVehicles_WithoutCollections(vehiclePerformance) ==
    Filter(vehiclePerformance,
           LAMBDA p : FracLess(p.targetAchievement, Whole(UnderperformingBelow)))
UnderperformingVehicles(vehiclePerformance) ==
    Filter(vehiclePerformance,
           LAMBDA p : /\ p.collectionCount > 0
                      /\ FracLess(p.targetAchievement, Whole(UnderperformingBelow)))

\* lines 218-223: the drivers whose license expires within 30 days
FleetExpiringLicenses(ds, now) == LicensesOfTimeframe(ds, "3", now)

\* line 237: the active vehicles without a driver
FleetUnassignedVehicles(vs) ==
    Filter(vs, LAMBDA v : v.assignedDriverId = NULL /\ v.status = "active")

\* lines 47 and 247: the vehicles under maintenance
FleetMaintenanceVehicles(vs) == Filter(vs, LAMBDA v : v.status = "maintenance")

\* lines 210-267: the alerts
FleetAlerts(vehiclePerformance, now) ==
    LET expiringLicenses == FleetExpiringLicenses(drivers, now)
        unassignedVehicles == FleetUnassignedVehicles(vehicles)
        maintenanceVehicles == FleetMaintenanceVehicles(vehicles)
        underperforming == UnderperformingVehicles(vehiclePerformance)
    IN [expiringLicenses |-> LicenseLines(expiringLicenses, now),
        unassignedVehicles |-> [k \in 1..Len(unassignedVehicles) |->
                                    unassignedVehicles[k].id],
        maintenanceVehicles |-> [k \in 1..Len(maintenanceVehicles) |->
                                    maintenanceVehicles[k].id],
        underperforming |-> [k \in 1..Len(underperforming) |->
                                [vehicleId |-> underperforming[k].vehicleId,
                                 targetAchievement |->
                                    underperforming[k].targetAchievement]],
        noAlerts |-> /\ Len(expiringLicenses) = 0 /\ Len(unassignedVehicles) = 0
                     /\ Len(maintenanceVehicles) = 0 /\ Len(underperforming) = 0]

\* the whole handler; the readings of the clock during one run are one
\* reading, today is its day
generateFleetPerformanceReport(Clock) ==
    \E now \in Clock :
    /\ last' = Ended("generateFleetPerformanceReport",
                     IF Len(vehicles) = 0 THEN "noData" ELSE "shown")
    /\ report' =
        IF Len(vehicles) = 0 THEN [kind |-> "fleet", shown |-> FALSE]
        ELSE LET vehiclePerformance == RankByNetProfit(
                    [k \in 1..Len(vehicles) |->
                        FleetVehiclePerformance(vehicles[k], collections, expenses)])
                 driverPerformance == RankByAverageDaily(
                    [k \in 1..Len(drivers) |->
                        FleetDriverPerformance(drivers[k], collections)])
             IN [kind |-> "fleet", shown |-> TRUE,
                 today |-> DayOf(now),
                 totalCollections |-> SumAmount(collections),
                 totalExpenses |-> SumAmount(expenses),
                 netProfit |-> SumAmount(collections) - SumAmount(expenses),
                 vehiclePerformance |-> vehiclePerformance,
                 driverPerformance |-> driverPerformance,
                 topVehicles |-> FleetTop(vehiclePerformance),
                 topDrivers |-> FleetTop(driverPerformance),
                 alerts |-> FleetAlerts(vehiclePerformance, now)]
    /\ UNCHANGED <<vehicles, drivers, collections, expenses>>

\* the array index that a route name of the model is, when the name is the
\* canonical decimal form of an integer in 0 .. 2^32 - 2
NotAnIndex == 0 - 1
ArrayIndex(route) ==
    IF route = "46" THEN 46 ELSE IF route = "9" THEN 9 ELSE NotAnIndex

\* lines 301-310: the keys of routeData in the order they were created
RECURSIVE RoutesInserted(_)
RoutesInserted(vs) ==
    IF vs = <<>> THEN <<>>
    ELSE LET before == RoutesInserted(SubSeq(vs, 1, Len(vs) - 1))
             route == vs[Len(vs)].route
         IN IF \E k \in 1..Len(before) : before[k] = route
            THEN before ELSE Append(before, route)

\* the keys that are array indexes, in ascending order
RECURSIVE IndexKeysAscending(_)
IndexKeysAscending(keys) ==
    IF keys = {} THEN <<>>
    ELSE LET least == CHOOSE k \in keys :
                        \A other \in keys : ArrayIndex(k) <= ArrayIndex(other)
         IN <<least>> \o IndexKeysAscending(keys \ {least})

\* line 323, Object.entries(routeData): the own keys of an object are listed
\* with the array indexes first, in ascending numeric order, and the other
\* strings after them, in the order they were created
ObjectEntries(inserted) ==
    IndexKeysAscending({inserted[k] : k \in {j \in 1..Len(inserted) :
                                               ArrayIndex(inserted[j]) # NotAnIndex}})
    \o Filter(inserted, LAMBDA route : ArrayIndex(route) = NotAnIndex)

\* lines 302-311: the vehicles pushed onto the group of the route
VehiclesOfRoute_First(vs, route) ==
    SliceFirst(Filter(vs, LAMBDA v : v.route = route), 1)
VehiclesOfRoute(vs, route) == Filter(vs, LAMBDA v : v.route = route)

\* the names that routeData = {} inherits from Object.prototype: for such a
\* route the test !routeData[vehicle.route] of line 302 finds the inherited
\* value, no group is created, and the push of line 311 throws a TypeError
InheritedKeys ==
    {"constructor", "__proto__", "hasOwnProperty", "isPrototypeOf",
     "propertyIsEnumerable", "toLocaleString", "toString", "valueOf",
     "__defineGetter__", "__defineSetter__", "__lookupGetter__", "__lookupSetter__"}

\* lines 312-338: the entry of one route, its totals are the sums over its
\* vehicles
RouteProfitability(route, vs, cs, es) ==
    LET routeVehicles == VehiclesOfRoute(vs, route)
        totalCollections == SumNumbers([k \in 1..Len(routeVehicles) |->
            SumAmount(CollectionsOfVehicle(cs, routeVehicles[k].id))])
        totalExpenses == SumNumbers([k \in 1..Len(routeVehicles) |->
            SumAmount(ExpensesOfVehicle(es, routeVehicles[k].id))])
        collectionCount == SumNumbers([k \in 1..Len(routeVehicles) |->
            Len(CollectionsOfVehicle(cs, routeVehicles[k].id))])
        netProfit == totalCollections - totalExpenses
    IN [route |-> route,
        vehicleCount |-> Len(routeVehicles),
        totalCollections |-> totalCollections,
        totalExpenses |-> totalExpenses,
        netProfit |-> netProfit,
        profitMargin |-> IF totalCollections > 0
                         THEN Frac(netProfit * 100, totalCollections) ELSE Zero,
        avgDailyPerVehicle |-> IF collectionCount > 0
                               THEN Frac(totalCollections, collectionCount) ELSE Zero,
        collectionCount |-> collectionCount]

generateRouteProfitabilityReport ==
    /\ last' = Ended("generateRouteProfitabilityReport",
                     IF Len(collections) = 0 THEN "noData"
                     ELSE IF \E k \in 1..Len(vehicles) : vehicles[k].route \in InheritedKeys
                     THEN "threw" ELSE "shown")
    /\ report' =
        IF Len(collections) = 0 THEN [kind |-> "routes", shown |-> FALSE]
        ELSE IF \E k \in 1..Len(vehicles) : vehicles[k].route \in InheritedKeys
        THEN [kind |-> "routes", shown |-> FALSE]
        ELSE LET entries == ObjectEntries(RoutesInserted(vehicles))
             IN [kind |-> "routes", shown |-> TRUE,
                 routeProfitability |-> RankByNetProfit(
                    [k \in 1..Len(entries) |->
                        RouteProfitability(entries[k], vehicles, collections, expenses)])]
    /\ UNCHANGED <<vehicles, drivers, collections, expenses>>

----------------------------------------------------------------------------
(* updateDriver (src/unnamed/part_000, lines 484-596).  The drivers of the *)
(* model have no phone: a new phone number changes none of their fields.   *)

UpdateDriverReturns(outcome) ==
    /\ last' = Ended("updateDriver", outcome)
    /\ UNCHANGED drivers

\* lines 587-592: saveDrivers(drivers) with the driver changed in place
UpdateDriverSaves(ds, di, SaveResults) ==
    \E ok \in SaveResults :
        /\ drivers' = writeJSONFile(drivers, ds, ok)
        /\ last' = [Ended("updateDriver", IF ok THEN "saved" ELSE "saveFailed")
                       EXCEPT !.driverId = drivers[di].id]

NoInput == 0 - 2

updateDriver(PhonesValid, ExpiryInputs, SaveResults) ==
    /\ report' = NoReport
    /\ UNCHANGED <<vehicles, collections, expenses>>
    /\ IF Len(drivers) = 0 THEN UpdateDriverReturns("noDrivers")
       ELSE \E term \in SearchTerms :
            LET matching == findDriverByName(drivers, term)
            IN IF Len(matching) = 0 THEN UpdateDriverReturns("noDriverMatches")
               ELSE \E selection \in (IF Len(matching) = 1 THEN {1} ELSE 0..Len(matching)),
                       choice \in {"1", "2", "3", "x"} :
                    IF selection < 1 THEN UpdateDriverReturns("invalidSelection")
                    ELSE LET di == matching[selection]
                         IN CASE choice = "1" ->
                                 \* an empty line, or a phone number that is valid or not
                                 \E valid \in PhonesValid :
                                    IF valid THEN UpdateDriverSaves(drivers, di, SaveResults)
                                    ELSE UpdateDriverReturns("invalidPhone")
                              [] choice = "2" ->
                                 \E newExpiry \in ExpiryInputs :
                                    IF newExpiry = NoInput
                                    THEN UpdateDriverSaves(drivers, di, SaveResults)
                                    ELSE IF ~isValidDate(newExpiry)
                                    THEN UpdateDriverReturns("invalidDate")
                                    ELSE UpdateDriverSaves(
                                            [drivers EXCEPT ![di].licenseExpiry = newExpiry],
                                            di, SaveResults)
                              [] choice = "3" -> UpdateDriverReturns("cancelled")
                              [] OTHER -> UpdateDriverReturns("invalidOption")

----------------------------------------------------------------------------
(* Specifications *)

Init ==
    /\ vehicles = <<>>
    /\ drivers = <<>>
    /\ collections = <<>>
    /\ expenses = <<>>
    /\ last = NoOp
    /\ report = NoReport

\* inputs of the assignment specifications
AssignRoutes == {"CBD - Kibera"}
AssignTargets == {2000}
AssignStatuses == {"active"}
AssignCapacities == {14}
AssignExpiries == {400}

AddVehicleStep(ok) ==
    /\ Len(vehicles) < MaxVehicles
    /\ \E registration \in {Registrations[Len(vehicles) + 1]}, capacity \in AssignCapacities,
       route \in AssignRoutes, dailyTarget \in AssignTargets,
       status \in AssignStatuses :
        addVehicle(registration, capacity, route, Finite(dailyTarget), status, ok)

AddDriverStep(ok) ==
    /\ Len(drivers) < MaxDrivers
    /\ \E name \in {DriverNames[Len(drivers) + 1]}, licenseExpiry \in AssignExpiries :
        addDriver(name, licenseExpiry, ok)

\* every save may fail
Next ==
    \/ \E ok \in BOOLEAN : AddVehicleStep(ok)
    \/ \E ok \in BOOLEAN : AddDriverStep(ok)
    \/ assignDriverToVehicle(MayFail)

Spec == Init /\ [][Next]_vars

\* no save fails
NextSaved ==
    \/ AddVehicleStep(TRUE)
    \/ AddDriverStep(TRUE)
    \/ assignDriverToVehicle(Succeeds)

SpecSaved == Init /\ [][NextSaved]_vars

\* the readings of the clock: the midnight that starts day 2 and a later
\* instant of day 2
Clock == {InstantOfDate(2), InstantOfDate(2) + 1}

FleetReportStep == generateFleetPerformanceReport(Clock)

\* the scenario of the fleet with two targets: the n-th vehicle gets the
\* target, the dates and the amounts of the scenario's n-th vehicle;
\* collections are recorded without drivers
ExampleTargets == <<2000, 1500, 2000, 1500>>
ExampleAmounts == <<{1800, 2500}, {1600}, {1800}, {1600}>>
ExampleDates == <<{1, 2}, {1}, {1}, {1}>>

MaxCollections == 3

AddExampleVehicle ==
    /\ Len(vehicles) < MaxVehicles
    /\ addVehicle(Registrations[Len(vehicles) + 1], 14, "CBD - Kibera",
                  Finite(ExampleTargets[Len(vehicles) + 1]), "active", TRUE)

RecordExampleCollection ==
    recordCollection(ExampleDates, ExampleAmounts, MayFail, MaxCollections)

NextExample ==
    \/ AddExampleVehicle
    \/ RecordExampleCollection
    \/ viewPerformanceRankings
    \/ FleetReportStep

SpecExample == Init /\ [][NextExample]_vars

\* a fleet with drivers and routes: the n-th vehicle gets the n-th route,
\* target, dates and amounts; a collection of a vehicle without a driver is
\* recorded for any driver or for none
FleetRoutes == <<"CBD - Kibera", "46", "CBD - Kibera", "9">>
FleetTargets == <<2000, 2000, 1500, 1500>>
FleetAmounts == <<{1000}, {1000}, {2000}, {1000}>>
FleetDates == <<{1, 2}, {1}, {1}, {1}>>
MaxCrew == 1
MaxFleetCollections == 2
MaxExpenses == 1

PeriodDateInputs == {1, 2, InvalidDate}

AddFleetVehicle ==
    /\ Len(vehicles) < MaxVehicles
    /\ addVehicle(Registrations[Len(vehicles) + 1], 14, FleetRoutes[Len(vehicles) + 1],
                  Finite(FleetTargets[Len(vehicles) + 1]), "active", TRUE)

AddCrewDriver ==
    /\ Len(drivers) < MaxCrew
    /\ addDriver(DriverNames[Len(drivers) + 1], 400, TRUE)

RecordFleetCollection ==
    recordCollection(FleetDates, FleetAmounts, MayFail, MaxFleetCollections)

RecordFleetExpense ==
    recordExpense({"fuel"}, {500}, {1}, MayFail, MaxExpenses)

PeriodTotalsStep == calculatePeriodTotals(Clock, PeriodDateInputs)

RecordGroupCollection ==
    recordCollection(FleetDates, FleetAmounts, Succeeds, MaxFleetCollections)

\* the stores without expenses and the reports that group the collections
NextGroups ==
    \/ AddFleetVehicle
    \/ AddCrewDriver
    \/ RecordGroupCollection
    \/ viewPerformanceRankings
    \/ viewDriverPerformance
    \/ generateRouteProfitabilityReport
    \/ PeriodTotalsStep

SpecGroups == Init /\ [][NextGroups]_vars

\* the stores with expenses and the reports that rank
NextFleet ==
    \/ AddFleetVehicle
    \/ AddDriverStep(TRUE)
    \/ RecordFleetCollection
    \/ RecordFleetExpense
    \/ viewPerformanceRankings
    \/ viewDriverPerformance
    \/ FleetReportStep
    \/ generateRouteProfitabilityReport

SpecFleet == Init /\ [][NextFleet]_vars


\* the rankings of a larger fleet: the stores are those left by adding n
\* vehicles with one target and then recording, in the order of the vehicles
\* and without drivers, one collection of day 1 for some of them
RankedTarget == 2000
RankedAmounts == <<{1000}, {3000}, {1000, 2000}, {2000}, {0}, {1500}, {1000}>>
NoCollection == 0 - 1
MaxRanked == 5

RECURSIVE RankedFleet(_)
RankedFleet(n) ==
    IF n = 0 THEN <<>>
    ELSE LET vs == RankedFleet(n - 1)
         IN Append(vs, NewVehicle(vs, Registrations[n], 14, "CBD - Kibera",
                                  RankedTarget, "active"))

\* amounts[k] is the amount recorded for the k-th vehicle, if any
RECURSIVE RankedCollections(_, _, _)
RankedCollections(vs, amounts, n) ==
    IF n = 0 THEN <<>>
    ELSE LET cs == RankedCollections(vs, amounts, n - 1)
         IN IF amounts[n] = NoCollection THEN cs
            ELSE Append(cs, NewCollection(cs, vs[n].id, UNASSIGNED, 1, amounts[n]))

InitRankings ==
    \E n \in 0..MaxRanked :
    \E amounts \in [1..n -> {NoCollection, 0, 1000, 1500, 2000, 3000}] :
        /\ \A k \in 1..n : amounts[k] \in RankedAmounts[k] \cup {NoCollection}
        /\ vehicles = RankedFleet(n)
        /\ drivers = <<>>
        /\ collections = RankedCollections(RankedFleet(n), amounts, n)
        /\ expenses = <<>>
        /\ last = NoOp
        /\ report = NoReport

NextRankings == viewPerformanceRankings

SpecRankings == InitRankings /\ [][NextRankings]_vars

\* the two lists of top vehicles on the fleets of the rankings
NextTop ==
    \/ viewPerformanceRankings
    \/ FleetReportStep

SpecTop == InitRankings /\ [][NextTop]_vars

\* the reports over a period: the clock reads the midnight that starts day
\* Today or a later instant of that day; the stores are those left by adding
\* two vehicles and then recording, in the order of the pools and without
\* drivers, some of the pool's collections and expenses
Today == 40
PeriodClock == {InstantOfDate(Today), InstantOfDate(Today) + 1}
CustomDateInputs == {Today - 30, Today - 7, Today, InvalidDate}

PeriodCollectionPool ==
    <<[vehicle |-> 1, date |-> Today - 31, amounts |-> {1000}],
      [vehicle |-> 1, date |-> Today - 30, amounts |-> {1000}],
      [vehicle |-> 1, date |-> Today - 8, amounts |-> {1000}],
      [vehicle |-> 1, date |-> Today - 7, amounts |-> {0, 1000}],
      [vehicle |-> 1, date |-> Today, amounts |-> {0, 1000}],
      [vehicle |-> 2, date |-> Today - 7, amounts |-> {1000}]>>
PeriodExpensePool ==
    <<[vehicle |-> 1, date |-> Today - 30, category |-> "fuel", amount |-> 500],
      [vehicle |-> 1, date |-> Today - 7, category |-> "repair", amount |-> 500],
      [vehicle |-> 1, date |-> Today, category |-> "fuel", amount |-> 500],
      [vehicle |-> 2, date |-> Today - 7, category |-> "fuel", amount |-> 500]>>
MaxPeriodCollections == 2
MaxPeriodExpenses == 1

\* amounts[k] is the amount recorded for the k-th collection of the pool, if any
RECURSIVE PooledCollections(_, _, _, _)
PooledCollections(vs, pool, amounts, n) ==
    IF n = 0 THEN <<>>
    ELSE LET cs == PooledCollections(vs, pool, amounts, n - 1)
         IN IF amounts[n] = NoCollection THEN cs
            ELSE Append(cs, NewCollection(cs, vs[pool[n].vehicle].id, UNASSIGNED,
                                          pool[n].date, amounts[n]))

\* picked holds the positions of the pool's expenses that are recorded
RECURSIVE PooledExpenses(_, _, _, _)
PooledExpenses(vs, pool, picked, n) ==
    IF n = 0 THEN <<>>
    ELSE LET es == PooledExpenses(vs, pool, picked, n - 1)
         IN IF n \notin picked THEN es
            ELSE Append(es, NewExpense(es, vs[pool[n].vehicle].id, pool[n].category,
                                       pool[n].amount, pool[n].date))

InitPeriods ==
    \E amounts \in [1..Len(PeriodCollectionPool) -> {NoCollection, 0, 1000}] :
    \E picked \in SUBSET (1..Len(PeriodExpensePool)) :
        /\ \A k \in 1..Len(PeriodCollectionPool) :
                amounts[k] \in PeriodCollectionPool[k].amounts \cup {NoCollection}
        /\ Cardinality({k \in 1..Len(PeriodCollectionPool) : amounts[k] # NoCollection})
                <= MaxPeriodCollections
        /\ Cardinality(picked) <= MaxPeriodExpenses
        /\ vehicles = RankedFleet(2)
        /\ drivers = <<>>
        /\ collections = PooledCollections(RankedFleet(2), PeriodCollectionPool, amounts,
                                           Len(PeriodCollectionPool))
        /\ expenses = PooledExpenses(RankedFleet(2), PeriodExpensePool, picked,
                                     Len(PeriodExpensePool))
        /\ last = NoOp
        /\ report = NoReport

PeriodTotalsOfDay == calculatePeriodTotals(PeriodClock, CustomDateInputs)
NetProfitOfDay == calculateNetProfit(PeriodClock, CustomDateInputs)
ExpenseSummaryOfDay == generateExpenseSummary(PeriodClock)
FleetReportOfDay == generateFleetPerformanceReport(PeriodClock)
LicensesOfDay == viewExpiringLicenses(PeriodClock)

NextPeriods ==
    \/ PeriodTotalsOfDay
    \/ NetProfitOfDay
    \/ ExpenseSummaryOfDay
    \/ FleetReportOfDay

SpecPeriods == InitPeriods /\ [][NextPeriods]_vars

\* the expense summary: the stores are those left by adding one vehicle and
\* then recording, in the order of the pool, some of the pool's expenses
SummaryExpensePool ==
    <<[vehicle |-> 1, date |-> Today, category |-> "fuel", amount |-> 500],
      [vehicle |-> 1, date |-> Today - 7, category |-> "fuel", amount |-> 1500],
      [vehicle |-> 1, date |-> Today, category |-> "repair", amount |-> 2000],
      [vehicle |-> 1, date |-> Today - 31, category |-> "fine", amount |-> 300],
      [vehicle |-> 1, date |-> Today, category |-> "insurance", amount |-> 1000],
      [vehicle |-> 1, date |-> Today - 8, category |-> "other", amount |-> 200]>>
MaxSummaryExpenses == 4

InitExpenses ==
    \E picked \in SUBSET (1..Len(SummaryExpensePool)) :
        /\ Cardinality(picked) <= MaxSummaryExpenses
        /\ vehicles = RankedFleet(1)
        /\ drivers = <<>>
        /\ collections = <<>>
        /\ expenses = PooledExpenses(RankedFleet(1), SummaryExpensePool, picked,
                                     Len(SummaryExpensePool))
        /\ last = NoOp
        /\ report = NoReport

NextExpenses == ExpenseSummaryOfDay

SpecExpenses == InitExpenses /\ [][NextExpenses]_vars

\* the route report: the stores are those left by adding n vehicles on any
\* of three routes and then recording, in the order of the vehicles and
\* without drivers, for some of them a collection of day 1 and an expense, and
\* a collection of day 2 for the first
RouteNames == {"CBD - Kibera", "46", "constructor"}
MaxRouted == 3

RECURSIVE RoutedFleet(_, _)
RoutedFleet(routes, n) ==
    IF n = 0 THEN <<>>
    ELSE LET vs == RoutedFleet(routes, n - 1)
         IN Append(vs, NewVehicle(vs, Registrations[n], 14, routes[n], RankedTarget,
                                  "active"))

\* the collection of day 1 and the expense of the k-th vehicle
RoutedCollectionPool(n) ==
    [k \in 1..(n + 1) |->
        IF k <= n THEN [vehicle |-> k, date |-> 1, amounts |-> {1000}]
        ELSE [vehicle |-> 1, date |-> 2, amounts |-> {2000}]]
RoutedExpensePool(n) ==
    [k \in 1..n |-> [vehicle |-> k, date |-> 1, category |-> "fuel", amount |-> 500]]

InitRoutes ==
    \E n \in 1..MaxRouted :
    \E routes \in [1..n -> RouteNames] :
    \E amounts \in [1..(n + 1) -> {NoCollection, 1000, 2000}] :
    \E picked \in SUBSET (1..n) :
        /\ \A k \in 1..(n + 1) :
                amounts[k] \in RoutedCollectionPool(n)[k].amounts \cup {NoCollection}
        /\ vehicles = RoutedFleet(routes, n)
        /\ drivers = <<>>
        /\ collections = PooledCollections(RoutedFleet(routes, n), RoutedCollectionPool(n),
                                           amounts, n + 1)
        /\ expenses = PooledExpenses(RoutedFleet(routes, n), RoutedExpensePool(n),
                                     picked, n)
        /\ last = NoOp
        /\ report = NoReport

NextRoutes == generateRouteProfitabilityReport

SpecRoutes == InitRoutes /\ [][NextRoutes]_vars

\* the license alerts: the stores are those left by adding one vehicle and n
\* drivers whose licenses expire from yesterday to 31 days from today
LicenseExpiries == {Today - 1, Today, Today + 7, Today + 8, Today + 30, Today + 31}
MaxLicensed == 2

RECURSIVE LicensedDrivers(_, _)
LicensedDrivers(expiries, n) ==
    IF n = 0 THEN <<>>
    ELSE LET ds == LicensedDrivers(expiries, n - 1)
         IN Append(ds, NewDriver(ds, DriverNames[n], expiries[n]))

InitLicenses ==
    \E n \in 0..MaxLicensed :
    \E expiries \in [1..n -> LicenseExpiries] :
        /\ vehicles = RankedFleet(1)
        /\ drivers = LicensedDrivers(expiries, n)
        /\ collections = <<>>
        /\ expenses = <<>>
        /\ last = NoOp
        /\ report = NoReport

NextLicenses ==
    \/ LicensesOfDay
    \/ FleetReportOfDay

SpecLicenses == InitLicenses /\ [][NextLicenses]_vars

\* the alerts on the targets: the stores are those left by adding n vehicles
\* with one target and then recording, in the order of the vehicles and without
\* drivers, for some of them a collection of day 1, and a collection of day 2
\* for the first
AlertedCollectionPool(n) ==
    [k \in 1..(n + 1) |->
        IF k <= n THEN [vehicle |-> k, date |-> 1, amounts |-> {0, 1500, 1600}]
        ELSE [vehicle |-> 1, date |-> 2, amounts |-> {1700}]]
MaxAlerted == 3

InitAlerts ==
    \E n \in 1..MaxAlerted :
    \E amounts \in [1..(n + 1) -> {NoCollection, 0, 1500, 1600, 1700}] :
        /\ \A k \in 1..(n + 1) :
                amounts[k] \in AlertedCollectionPool(n)[k].amounts \cup {NoCollection}
        /\ vehicles = RankedFleet(n)
        /\ drivers = <<>>
        /\ collections = PooledCollections(RankedFleet(n), AlertedCollectionPool(n),
                                           amounts, n + 1)
        /\ expenses = <<>>
        /\ last = NoOp
        /\ report = NoReport

NextAlerts == FleetReportOfDay

SpecAlerts == InitAlerts /\ [][NextAlerts]_vars

\* the fleet that may have no alert: the stores are those left by adding one
\* vehicle of any status that has no driver, then n drivers, and then recording
\* at most one collection of the vehicle
SmoothStatuses == {"active", "inactive", "maintenance"}
SmoothExpiries == {Today - 1, Today + 30, Today + 31}
SmoothAmounts == {NoCollection, 1500, 1600}

InitSmooth ==
    \E status \in SmoothStatuses :
    \E n \in 0..MaxLicensed :
    \E expiries \in [1..n -> SmoothExpiries] :
    \E amount \in SmoothAmounts :
        LET vs == <<NewVehicle(<<>>, Registrations[1], 14, "CBD - Kibera", RankedTarget,
                               status)>>
        IN /\ vehicles = vs
           /\ drivers = LicensedDrivers(expiries, n)
           /\ collections = IF amount = NoCollection THEN <<>>
                             ELSE <<NewCollection(<<>>, vs[1].id, UNASSIGNED, 1, amount)>>
           /\ expenses = <<>>
           /\ last = NoOp
           /\ report = NoReport

NextSmooth == FleetReportOfDay

SpecSmooth == InitSmooth /\ [][NextSmooth]_vars

\* the vehicles and their targets: what the operator types at the target
\* and capacity prompts is a line of characters
TargetInputs ==
    {<<>>, <<"a", "b", "c">>, <<"0">>, <<"-", "5">>, <<"1", "5", "0", "0">>,
     <<"2", "5", "0", "0">>, InfinityLiteral, <<"-">> \o InfinityLiteral}
CapacityInputs == {<<>>, <<"a", "b", "c">>, <<"0">>, <<"3", "3">>}
RouteInputs == {"", "46"}
StatusChoices == {"1", "2", "3", "x"}
MaxTargeted == 1

AddTargetedVehicle ==
    /\ Len(vehicles) < MaxTargeted
    /\ \E targetInput \in TargetInputs, ok \in MayFail :
        addVehicle(Registrations[Len(vehicles) + 1], 14, "CBD - Kibera",
                   parseFloat(targetInput), "active", ok)

UpdateTargetedVehicle ==
    updateVehicle(RouteInputs, TargetInputs, StatusChoices, CapacityInputs, MayFail)

NextTargets ==
    \/ AddTargetedVehicle
    \/ UpdateTargetedVehicle

SpecTargets == Init /\ [][NextTargets]_vars

\* every kind of operation on a small fleet: vehicles and drivers are added
\* and assigned, updated in one field, and collections of the first vehicle,
\* expenses and a report are made; no save fails
FramedDates == <<{1}, {}, {}, {}>>
FramedAmounts == <<{1000}, {1000}, {1000}, {1000}>>
FramedExpiries == {NoInput, InvalidDate, 500}
MaxFramed == 1

AddFramedVehicle ==
    /\ Len(vehicles) < MaxFramed
    /\ addVehicle(Registrations[Len(vehicles) + 1], 14, "CBD - Kibera",
                  Finite(2000), "active", TRUE)

AddFramedDriver ==
    /\ Len(drivers) < MaxFramed
    /\ addDriver(DriverNames[Len(drivers) + 1], 400, TRUE)

UpdateFramedVehicle ==
    updateVehicle({""}, {<<>>, <<"0">>}, {"2", "x"}, {<<>>}, Succeeds)

UpdateFramedDriver == updateDriver(BOOLEAN, FramedExpiries, Succeeds)

RecordFramedCollection ==
    recordCollection(FramedDates, FramedAmounts, Succeeds, MaxFramed)

RecordFramedExpense ==
    recordExpense({"fuel"}, {500}, {1}, Succeeds, MaxFramed)

NextFrames ==
    \/ AddFramedVehicle
    \/ AddFramedDriver
    \/ assignDriverToVehicle(Succeeds)
    \/ UpdateFramedVehicle
    \/ UpdateFramedDriver
    \/ RecordFramedCollection
    \/ RecordFramedExpense
    \/ FleetReportStep

SpecFrames == Init /\ [][NextFrames]_vars

\* the operations that add a record to a store: collections are recorded
\* for two days of the first vehicle, so that the second recording of a day
\* overwrites the first
IdDates == <<{1, 2}, {}, {}, {}>>
MaxIds == 2

RecordIdCollection == recordCollection(IdDates, FramedAmounts, MayFail, MaxIds)

RecordIdExpense == recordExpense({"fuel"}, {500}, {1}, MayFail, MaxIds)

NextIds ==
    \/ AddFleetVehicle
    \/ AddDriverStep(TRUE)
    \/ RecordIdCollection
    \/ RecordIdExpense

SpecIds == Init /\ [][NextIds]_vars

\* collections.json is read as it is stored (loadCollections): besides the
\* records that recordCollection writes, with the id of a stored driver or
\* 'unassigned', the file may hold records whose vehicleId or driverId is
\* the id of no stored vehicle or driver.  The stores are two vehicles, one
\* driver and n collections, the k-th of day k
UnknownVehicleId == <<"v", 0, 1, 1>>
UnknownDriverId == <<"d", 0, 1, 1>>
StoredAmounts == {1000, 2500}
MaxStored == 2

RECURSIVE StoredCollections(_, _, _, _)
StoredCollections(vehicleIds, driverIds, amounts, n) ==
    IF n = 0 THEN <<>>
    ELSE LET cs == StoredCollections(vehicleIds, driverIds, amounts, n - 1)
         IN Append(cs, NewCollection(cs, vehicleIds[n], driverIds[n], n, amounts[n]))

InitStored ==
    \E n \in 0..MaxStored :
    \E vehicleIds \in [1..n -> Ids(RankedFleet(2)) \cup {UnknownVehicleId}] :
    \E driverIds \in [1..n -> Ids(LicensedDrivers(<<400>>, 1))
                                \cup {UNASSIGNED, UnknownDriverId}] :
    \E amounts \in [1..n -> StoredAmounts] :
        /\ vehicles = RankedFleet(2)
        /\ drivers = LicensedDrivers(<<400>>, 1)
        /\ collections = StoredCollections(vehicleIds, driverIds, amounts, n)
        /\ expenses = <<>>
        /\ last = NoOp
        /\ report = NoReport

NextStored == FleetReportOfDay

SpecStored == InitStored /\ [][NextStored]_vars

----------------------------------------------------------------------------
(* Properties of the assignment *)

DriverById(ds, id) == ds[FindIndex(ds, LAMBDA d : d.id = id)]
VehicleById(vs, id) == vs[FindIndex(vs, LAMBDA v : v.id = id)]

\* invariant 1 of the data model on a pair of stores
MutualAssignment(ds, vs) ==
    /\ \A i \in 1..Len(ds), j \in 1..Len(vs) :
        vs[j].assignedDriverId = ds[i].id <=> ds[i].assignedVehicleId = vs[j].id
    /\ \A i, j \in 1..Len(vs) :
        (i # j /\ vs[i].assignedDriverId # NULL)
            => vs[i].assignedDriverId # vs[j].assignedDriverId
    /\ \A i, j \in 1..Len(ds) :
        (i # j /\ ds[i].assignedVehicleId # NULL)
            => ds[i].assignedVehicleId # ds[j].assignedVehicleId

\* the last handler was an assignment that reached its save
AssignmentMade(l) == l.op = "assign" /\ l.driverId # NULL

\* C1: when no save fails, the stored drivers and vehicles always form a
\* matching: a vehicle references a driver exactly when the driver references
\* the vehicle, and no driver or vehicle is referenced twice.
C1_InvariantPreserved == MutualAssignment(drivers, vehicles)

\* a reassignment was saved and some other pair is still assigned
C1_Witness ==
    /\ AssignmentMade(last) /\ last.outcome = "saved"
    /\ last.prevVehicleId \notin {NULL, last.vehicleId}
    /\ \E i \in 1..Len(drivers) : drivers[i].assignedVehicleId # NULL

\* C2: a saved assignment of D to V on a consistent state clears the vehicle
\* reference of V's previous driver, clears the driver reference of D's
\* previous vehicle, and makes D and V reference each other.
C2_Displacement ==
    [][ (AssignmentMade(last') /\ last'.outcome = "saved"
         /\ MutualAssignment(drivers, vehicles))
        => LET D == last'.driverId
               V == last'.vehicleId
               D1 == VehicleById(vehicles, V).assignedDriverId
               V1 == DriverById(drivers, D).assignedVehicleId
           IN /\ (D1 # NULL /\ D1 # D)
                    => DriverById(drivers', D1).assignedVehicleId = NULL
              /\ (V1 # NULL /\ V1 # V)
                    => VehicleById(vehicles', V1).assignedDriverId = NULL
              /\ DriverById(drivers', D).assignedVehicleId = V
              /\ VehicleById(vehicles', V).assignedDriverId = D ]_vars

\* a saved assignment displaced both a driver and a vehicle
C2_Witness ==
    /\ AssignmentMade(last) /\ last.outcome = "saved"
    /\ last.prevDriverId \notin {NULL, last.driverId}
    /\ last.prevVehicleId \notin {NULL, last.vehicleId}

\* C3: assigning D to V right after a saved assignment of D to V, or whenever
\* D and V already reference each other, changes no driver and no vehicle.
C3_Idempotent ==
    [][ (/\ AssignmentMade(last')
         /\ \/ /\ AssignmentMade(last) /\ last.outcome = "saved"
               /\ last.driverId = last'.driverId
               /\ last.vehicleId = last'.vehicleId
            \/ /\ DriverById(drivers, last'.driverId).assignedVehicleId = last'.vehicleId
               /\ VehicleById(vehicles, last'.vehicleId).assignedDriverId = last'.driverId)
        => (drivers' = drivers /\ vehicles' = vehicles) ]_vars

\* a driver was assigned, and saved, to the vehicle it already had
C3_Witness ==
    /\ AssignmentMade(last) /\ last.outcome = "saved"
    /\ last.prevDriverId = last.driverId
    /\ last.prevVehicleId = last.vehicleId

\* the stores hold the assignment the last handler made
HoldsNewDriver(ds, l) == DriverById(ds, l.driverId).assignedVehicleId = l.vehicleId
HoldsNewVehicle(vs, l) == VehicleById(vs, l.vehicleId).assignedDriverId = l.driverId

\* C4 as claimed: whatever the saves return, either both stores hold the new
\* assignment or both are as before the call.
C4_AllOrNothing ==
    [][ AssignmentMade(last')
        => \/ HoldsNewDriver(drivers', last') /\ HoldsNewVehicle(vehicles', last')
           \/ drivers' = drivers /\ vehicles' = vehicles ]_vars

\* C4 as amended: the two saves are not atomic.  When saveDrivers fails
\* nothing is written; when both saves succeed both stores hold the new
\* assignment; when saveDrivers succeeds and saveVehicles fails the drivers
\* hold the new assignment and the vehicles are as before the call.
C4_SavesInOrder ==
    [][ AssignmentMade(last')
        => /\ last'.outcome = "driversSaveFailed"
                => drivers' = drivers /\ vehicles' = vehicles
           /\ last'.outcome = "saved"
                => HoldsNewDriver(drivers', last') /\ HoldsNewVehicle(vehicles', last')
           /\ last'.outcome = "vehiclesSaveFailed"
                => HoldsNewDriver(drivers', last') /\ vehicles' = vehicles
           /\ last'.outcome \in {"driversSaveFailed", "saved", "vehiclesSaveFailed"} ]_vars

\* only the drivers were saved and the two stores now disagree
C4_Witness ==
    /\ AssignmentMade(last) /\ last.outcome = "vehiclesSaveFailed"
    /\ ~MutualAssignment(drivers, vehicles)

----------------------------------------------------------------------------
(* Properties of the collections *)

\* the sum of the numbers f[k] for k in S
RECURSIVE SumAt(_, _)
SumAt(f, S) ==
    IF S = {} THEN 0
    ELSE LET k == CHOOSE x \in S : TRUE IN f[k] + SumAt(f, S \ {k})

Amounts(cs) == [k \in 1..Len(cs) |-> cs[k].amount]
AllAmounts(cs) == SumAt(Amounts(cs), 1..Len(cs))

KeyOf(c) == <<c.vehicleId, c.date>>

UniqueKeys(cs) ==
    \A i, j \in 1..Len(cs) : KeyOf(cs[i]) = KeyOf(cs[j]) => i = j

\* C5: no two stored collections have the same vehicleId and date, and a
\* recordCollection that changes the store leaves the collections of the other
\* keys as they were, in their order, followed by the one collection of the
\* key it recorded: a collection that had this key is replaced.
C5_OnePerVehicleAndDate ==
    [][ /\ UniqueKeys(collections')
        /\ last'.op = "recordCollection"
            => \/ collections' = collections
               \/ /\ Len(collections') > 0
                  /\ LET recorded == collections'[Len(collections')]
                     IN collections' =
                            Append(SelectSeq(collections,
                                             LAMBDA c : KeyOf(c) # KeyOf(recorded)),
                                   recorded) ]_vars

\* an overwrite was confirmed and saved while other collections were stored
C5_Witness ==
    /\ last.op = "recordCollection" /\ last.outcome = "replaced"
    /\ Len(collections) >= 2

----------------------------------------------------------------------------
(* Properties of the reports *)

IndexesOfVehicle(cs, vehicleId) == {k \in 1..Len(cs) : cs[k].vehicleId = vehicleId}
IndexesOfDriver(cs, driverId) == {k \in 1..Len(cs) : cs[k].driverId = driverId}
IndexesOfPeriod(cs, startDate, endDate) ==
    {k \in 1..Len(cs) : /\ startDate <= InstantOfDate(cs[k].date)
                        /\ InstantOfDate(cs[k].date) <= endDate}

Shown(kind) == report.kind = kind /\ report.shown

\* the sum of the group totals of the report that is shown
PerformanceTotals ==
    SumAt([k \in 1..Len(report.performance) |-> report.performance[k].totalAmount],
          1..Len(report.performance))
RouteTotals ==
    SumAt([k \in 1..Len(report.routeProfitability) |->
                report.routeProfitability[k].totalCollections],
          1..Len(report.routeProfitability))

\* C6 as claimed: in the rankings by vehicle, the driver performance and the
\* route report, the group totals add up to the amounts of all collections.
C6_MassConservation ==
    /\ Shown("rankings") => PerformanceTotals = AllAmounts(collections)
    /\ Shown("drivers") => PerformanceTotals = AllAmounts(collections)
    /\ Shown("routes") => RouteTotals = AllAmounts(collections)

\* C6 as amended: the totals by vehicle and the totals by route add up to the
\* amounts of all collections; the totals by driver add up to the amounts of
\* the collections recorded for a stored driver, so the collections recorded
\* without a driver are in no group.
C6_MassConservedForStoredKeys ==
    /\ Shown("rankings") => PerformanceTotals = AllAmounts(collections)
    /\ Shown("routes") => RouteTotals = AllAmounts(collections)
    /\ Shown("drivers") =>
        PerformanceTotals =
            SumAt(Amounts(collections),
                  {k \in 1..Len(collections) : collections[k].driverId \in Ids(drivers)})

\* the driver performance was shown while one collection was recorded for a
\* driver and another without a driver
C6_Witness ==
    /\ Shown("drivers")
    /\ \E k \in 1..Len(collections) : collections[k].driverId = UNASSIGNED
    /\ \E k \in 1..Len(collections) : collections[k].driverId \in Ids(drivers)

\* count, total and average describe the collections at the indexes S
IsGroup(count, total, average, cs, S) ==
    /\ count = Cardinality(S)
    /\ total = SumAt(Amounts(cs), S)
    /\ average.den > 0
    /\ average.num * count = total * average.den
    /\ count = 0 => (total = 0 /\ average.num = 0)

\* C7: in the entry of every vehicle, of every driver and of the period, the
\* count is the number of the group's collections, the total is the sum of
\* their amounts and average * count = total; an entry with count 0 has total
\* 0 and average 0.
C7_GroupFigures ==
    /\ Shown("rankings") =>
        \A k \in 1..Len(report.performance) :
            LET p == report.performance[k]
            IN IsGroup(p.totalCollections, p.totalAmount, p.averageAmount, collections,
                       IndexesOfVehicle(collections, p.vehicleId))
    /\ Shown("drivers") =>
        \A k \in 1..Len(report.performance) :
            LET p == report.performance[k]
            IN IsGroup(p.totalCollections, p.totalAmount, p.averageAmount, collections,
                       IndexesOfDriver(collections, p.driverId))
    /\ Shown("period") =>
        IsGroup(report.totalCollections, report.totalAmount, report.averageAmount,
                collections,
                IndexesOfPeriod(collections, report.startDate, report.endDate))

\* the rankings were shown with a vehicle that has two collections and a
\* vehicle that has none
C7_Witness ==
    /\ Shown("rankings")
    /\ \E k \in 1..Len(report.performance) : report.performance[k].totalCollections = 2
    /\ \E k \in 1..Len(report.performance) : report.performance[k].totalCollections = 0

\* percent is (the average amount of the collections at S / dailyTarget) * 100,
\* and 0 when S is empty
IsPercentOfTarget(percent, cs, S, dailyTarget) ==
    /\ percent.den > 0
    /\ IF S = {} THEN percent.num = 0
       ELSE percent.num * (Cardinality(S) * dailyTarget)
                = SumAt(Amounts(cs), S) * 100 * percent.den

\* the stores of the example: V1 with target 2000 and the amounts 2500 and
\* 1800, V2 with target 1500 and the amount 1600
ExampleStored ==
    /\ Len(vehicles) = 2
    /\ vehicles[1].dailyTarget = 2000 /\ vehicles[2].dailyTarget = 1500
    /\ Len(collections) = 3
    /\ {<<collections[k].vehicleId, collections[k].amount>> : k \in 1..3}
        = {<<vehicles[1].id, 2500>>, <<vehicles[1].id, 1800>>, <<vehicles[2].id, 1600>>}

\* C8: the percentOfTarget of the rankings and the targetAchievement of the
\* fleet report are (average amount / dailyTarget) * 100 for a vehicle with
\* collections and 0 for a vehicle without; on the stores of the example the
\* rankings list V1 with 107.5 and then V2 with 106.7.
C8_PercentOfTarget ==
    /\ Shown("rankings") =>
        /\ \A k \in 1..Len(report.performance) :
            LET p == report.performance[k]
            IN IsPercentOfTarget(p.percentOfTarget, collections,
                                 IndexesOfVehicle(collections, p.vehicleId),
                                 VehicleById(vehicles, p.vehicleId).dailyTarget)
        /\ ExampleStored =>
            report.top = <<[vehicleId |-> vehicles[1].id, achievement |-> 1075],
                           [vehicleId |-> vehicles[2].id, achievement |-> 1067]>>
    /\ Shown("fleet") =>
        \A k \in 1..Len(report.vehiclePerformance) :
            LET p == report.vehiclePerformance[k]
            IN IsPercentOfTarget(p.targetAchievement, collections,
                                 IndexesOfVehicle(collections, p.vehicleId),
                                 VehicleById(vehicles, p.vehicleId).dailyTarget)

\* the rankings were shown on the stores of the example
C8_Witness == Shown("rankings") /\ ExampleStored

\* a is less than b, for two quotients
Less(a, b) == a.num * b.den < b.num * a.den
Integer(n) == [num |-> n, den |-> 1]

IndexOfId(seq, id) == CHOOSE k \in 1..Len(seq) : seq[k].id = id
FirstOfRoute(vs, route) ==
    CHOOSE k \in 1..Len(vs) :
        vs[k].route = route /\ \A j \in 1..(k - 1) : vs[j].route # route

\* the ranking is in non-increasing order of metric[k], and two entries with
\* the same metric are in the order of their sources' positions source[k]
IsStableRanking(metric, source) ==
    \A k, l \in 1..Len(metric) :
        k < l => /\ ~Less(metric[k], metric[l])
                 /\ ~Less(metric[l], metric[k]) => source[k] < source[l]

VehiclesByPercentRanked ==
    Shown("rankings") =>
        IsStableRanking(
            [k \in 1..Len(report.performance) |-> report.performance[k].percentOfTarget],
            [k \in 1..Len(report.performance) |->
                IndexOfId(vehicles, report.performance[k].vehicleId)])

VehiclesByNetProfitRanked ==
    Shown("fleet") =>
        IsStableRanking(
            [k \in 1..Len(report.vehiclePerformance) |->
                Integer(report.vehiclePerformance[k].netProfit)],
            [k \in 1..Len(report.vehiclePerformance) |->
                IndexOfId(vehicles, report.vehiclePerformance[k].vehicleId)])

DriversByAverageRanked ==
    /\ Shown("drivers") =>
        IsStableRanking(
            [k \in 1..Len(report.performance) |-> report.performance[k].averageAmount],
            [k \in 1..Len(report.performance) |->
                IndexOfId(drivers, report.performance[k].driverId)])
    /\ Shown("fleet") =>
        IsStableRanking(
            [k \in 1..Len(report.driverPerformance) |->
                report.driverPerformance[k].averageDaily],
            [k \in 1..Len(report.driverPerformance) |->
                IndexOfId(drivers, report.driverPerformance[k].driverId)])

RoutesByNetProfitRanked ==
    Shown("routes") =>
        IsStableRanking(
            [k \in 1..Len(report.routeProfitability) |->
                Integer(report.routeProfitability[k].netProfit)],
            [k \in 1..Len(report.routeProfitability) |->
                FirstOfRoute(vehicles, report.routeProfitability[k].route)])

\* C9 as claimed: the vehicles by percentOfTarget, the vehicles by netProfit,
\* the drivers by average and the routes by netProfit are each listed in
\* non-increasing order of the metric, entries with the same metric in the
\* order of the stored vehicles, drivers, and routes of the stored vehicles.
C9_RankingsStable ==
    /\ VehiclesByPercentRanked
    /\ VehiclesByNetProfitRanked
    /\ DriversByAverageRanked
    /\ RoutesByNetProfitRanked

\* the vehicles that have a collection
WithCollections == {vehicles[k].id : k \in {j \in 1..Len(vehicles) :
                        IndexesOfVehicle(collections, vehicles[j].id) # {}}}

\* vehicle a achieves no more of its target than vehicle b, both with collections
AchievesNoMore(a, b) ==
    LET Sa == IndexesOfVehicle(collections, a)
        Sb == IndexesOfVehicle(collections, b)
    IN SumAt(Amounts(collections), Sa)
            * (Cardinality(Sb) * VehicleById(vehicles, b).dailyTarget)
       <= SumAt(Amounts(collections), Sb)
            * (Cardinality(Sa) * VehicleById(vehicles, a).dailyTarget)

\* C10: the needs-improvement list holds only vehicles with a collection: it
\* has three of them, or all when there are fewer, none achieves more than a
\* vehicle with collections that is not listed, and it is in non-decreasing
\* order of achievement.
C10_BottomPerformers ==
    Shown("rankings") =>
        LET listed == [k \in 1..Len(report.bottom) |-> report.bottom[k].vehicleId]
            Listed == {listed[k] : k \in 1..Len(listed)}
        IN /\ Listed \subseteq WithCollections
           /\ Cardinality(Listed) = Len(listed)
           /\ Len(listed) = IF Cardinality(WithCollections) < 3
                            THEN Cardinality(WithCollections) ELSE 3
           /\ \A a \in Listed, b \in WithCollections \ Listed : AchievesNoMore(a, b)
           /\ \A k, l \in 1..Len(listed) : k < l => AchievesNoMore(listed[k], listed[l])

\* the rankings were shown for four vehicles with collections and one without
C10_Witness ==
    /\ Shown("rankings")
    /\ Cardinality(WithCollections) >= 4
    /\ Len(vehicles) > Cardinality(WithCollections)
    /\ Len(report.bottom) = 3

----------------------------------------------------------------------------
(* Properties of the profit figures *)

\* the sum of the records of a vehicle, over all of them or over a period
VehicleSum(rs, vehicleId) == SumAt(Amounts(rs), IndexesOfVehicle(rs, vehicleId))
VehiclePeriodSum(rs, vehicleId, startDate, endDate) ==
    SumAt(Amounts(rs), IndexesOfVehicle(rs, vehicleId)
                       \cap IndexesOfPeriod(rs, startDate, endDate))

\* C11: the net profit computed for a vehicle is the sum of its collections
\* less the sum of its expenses over the same period: over the chosen period in
\* the net profit calculator, over all records in the fleet report, also for a
\* vehicle that has expenses and no collections.
C11_NetProfit ==
    /\ Shown("netProfit") =>
            report.netProfit =
                VehiclePeriodSum(collections, report.vehicleId,
                                 report.startDate, report.endDate)
                - VehiclePeriodSum(expenses, report.vehicleId,
                                   report.startDate, report.endDate)
    /\ Shown("fleet") =>
            \A k \in 1..Len(report.vehiclePerformance) :
                LET p == report.vehiclePerformance[k]
                IN p.netProfit = VehicleSum(collections, p.vehicleId)
                                 - VehicleSum(expenses, p.vehicleId)

\* C11 without the fleet report's entries of vehicles that have no collection
C11_NetProfitWithCollections ==
    /\ Shown("netProfit") =>
            report.netProfit =
                VehiclePeriodSum(collections, report.vehicleId,
                                 report.startDate, report.endDate)
                - VehiclePeriodSum(expenses, report.vehicleId,
                                   report.startDate, report.endDate)
    /\ Shown("fleet") =>
            \A k \in 1..Len(report.vehiclePerformance) :
                LET p == report.vehiclePerformance[k]
                IN IndexesOfVehicle(collections, p.vehicleId) # {}
                   => p.netProfit = VehicleSum(collections, p.vehicleId)
                                    - VehicleSum(expenses, p.vehicleId)

\* C12: every ratio is 0 when its denominator is 0: the average of a group
\* without records, the percentage of a grand total of 0, and the profit margin
\* when the collections total 0, also when the period has collections and all
\* their amounts are 0.
C12_ZeroDenominators ==
    /\ Shown("netProfit") /\ report.metrics.shown /\ report.totalCollections = 0
            => report.metrics.profitMargin = Zero
    /\ Shown("expenses") =>
            \A k \in 1..Len(report.rows) :
                /\ report.rows[k].count = 0 => report.rows[k].average = Zero
                /\ report.totalExpenses = 0 => report.rows[k].percentage = Zero
    /\ Shown("fleet") =>
            \A k \in 1..Len(report.vehiclePerformance) :
                LET p == report.vehiclePerformance[k]
                IN p.collectionCount = 0
                   => p.averageDaily = Zero /\ p.targetAchievement = Zero

\* the ratios of C12 other than the calculator's profit margin
C12_GuardedRatios ==
    /\ Shown("netProfit") /\ report.metrics.shown
            => /\ report.collectionCount > 0
               /\ report.metrics.avgDailyCollection.den # 0
               /\ report.metrics.avgDailyExpense.den # 0
    /\ Shown("expenses") =>
            \A k \in 1..Len(report.rows) :
                /\ report.rows[k].count = 0 => report.rows[k].average = Zero
                /\ report.rows[k].average.den # 0
                /\ report.rows[k].percentage.den # 0
    /\ Shown("fleet") =>
            \A k \in 1..Len(report.vehiclePerformance) :
                LET p == report.vehiclePerformance[k]
                IN /\ p.collectionCount = 0
                        => p.averageDaily = Zero /\ p.targetAchievement = Zero
                   /\ p.averageDaily.den # 0 /\ p.targetAchievement.den # 0

----------------------------------------------------------------------------
(* Properties of the expense summary *)

IndexesOfCategory(es, category) == {k \in 1..Len(es) : es[k].category = category}

\* the row of the summary is that of the category, over the expenses at S
IsCategoryRow(row, category, S, grandTotal) ==
    LET members == S \cap IndexesOfCategory(expenses, category)
        total == SumAt(Amounts(expenses), members)
    IN /\ row.category = category
       /\ row.count = Cardinality(members)
       /\ row.total = total
       /\ row.percentage = IF grandTotal = 0 THEN Zero ELSE Frac(total * 100, grandTotal)
       /\ row.average = IF members = {} THEN Zero ELSE Frac(total, Cardinality(members))

\* C13: the expense summary has exactly the five rows fuel, repair, fine,
\* insurance, other; a row holds the count and the total of the period's
\* expenses of its category, the total's percentage of the grand total and the
\* average total / count, 0 when the count is 0; the counts add up to the number
\* of the period's expenses and the totals to the grand total.
C13_ExpenseSummary ==
    Shown("expenses") =>
        LET S == IndexesOfPeriod(expenses, report.startDate, report.endDate)
            grandTotal == SumAt(Amounts(expenses), S)
        IN /\ Len(report.rows) = 5
           /\ IsCategoryRow(report.rows[1], "fuel", S, grandTotal)
           /\ IsCategoryRow(report.rows[2], "repair", S, grandTotal)
           /\ IsCategoryRow(report.rows[3], "fine", S, grandTotal)
           /\ IsCategoryRow(report.rows[4], "insurance", S, grandTotal)
           /\ IsCategoryRow(report.rows[5], "other", S, grandTotal)
           /\ SumNumbers([k \in 1..5 |-> report.rows[k].count]) = Cardinality(S)
           /\ report.expenseCount = Cardinality(S)
           /\ SumNumbers([k \in 1..5 |-> report.rows[k].total]) = grandTotal
           /\ report.totalExpenses = grandTotal

\* a summary with a row of two expenses, a row of one, a row of none, and a
\* stored expense that is outside the period
C13_Witness ==
    /\ Shown("expenses")
    /\ \E i, j, k \in 1..Len(report.rows) :
            report.rows[i].count = 2 /\ report.rows[j].count = 1
            /\ report.rows[k].count = 0
    /\ report.expenseCount < Len(expenses)

----------------------------------------------------------------------------
(* Properties of the route report *)

\* the positions of the vehicles of a route, and of the records of its vehicles
IndexesOfRoute(route) == {v \in 1..Len(vehicles) : vehicles[v].route = route}
RecordsOfRoute(rs, route) ==
    {k \in 1..Len(rs) : \E v \in IndexesOfRoute(route) : rs[k].vehicleId = vehicles[v].id}

----------------------------------------------------------------------------
(* Properties of the periods *)

\* the positions of the records dated from startDay to endDay
IndexesOfDays(rs, startDay, endDay) ==
    {k \in 1..Len(rs) : startDay <= rs[k].date /\ rs[k].date <= endDay}

\* the last report is one of the period with this label: a summary, or the
\* message that the period has no record
OfPeriod(kind, periodLabels) ==
    /\ report.kind = kind
    /\ last.outcome \in {"shown", "noneInPeriod"}
    /\ report.periodLabel \in periodLabels

\* the summary of the collections counts exactly the collections at S
SummarisesCollections(S) ==
    IF report.shown
    THEN /\ report.totalCollections = Cardinality(S)
         /\ report.totalAmount = SumAt(Amounts(collections), S)
    ELSE S = {}

\* the analysis of the vehicle counts exactly its collections at S and its
\* expenses at E
AnalysesVehicle(S, E) ==
    LET ownCollections == S \cap IndexesOfVehicle(collections, report.vehicleId)
        ownExpenses == E \cap IndexesOfVehicle(expenses, report.vehicleId)
    IN /\ report.collectionCount = Cardinality(ownCollections)
       /\ report.totalCollections = SumAt(Amounts(collections), ownCollections)
       /\ report.expenseCount = Cardinality(ownExpenses)
       /\ report.totalExpenses = SumAt(Amounts(expenses), ownExpenses)

\* the summary of the expenses counts exactly the expenses at E
SummarisesExpenses(E) ==
    IF report.shown
    THEN /\ report.expenseCount = Cardinality(E)
         /\ report.totalExpenses = SumAt(Amounts(expenses), E)
    ELSE E = {}

\* C15: for a custom period with start <= end, a record is included exactly
\* when start <= date <= end, compared by day, in the period totals and in the
\* net profit calculation.
C15_CustomPeriod ==
    /\ OfPeriod("period", {"custom"}) /\ report.startDate <= report.endDate
        => SummarisesCollections(IndexesOfDays(collections, DayOf(report.startDate),
                                               DayOf(report.endDate)))
    /\ OfPeriod("netProfit", {"custom"}) /\ report.startDate <= report.endDate
        => AnalysesVehicle(IndexesOfDays(collections, DayOf(report.startDate),
                                         DayOf(report.endDate)),
                           IndexesOfDays(expenses, DayOf(report.startDate),
                                         DayOf(report.endDate)))

\* the analysis of a custom period of several days: the vehicle has a
\* collection dated the last day that is counted and one dated after it that
\* is not
C15_Witness ==
    /\ OfPeriod("netProfit", {"custom"}) /\ report.startDate < report.endDate
    /\ report.collectionCount = 1
    /\ \E i, j \in IndexesOfVehicle(collections, report.vehicleId) :
            /\ collections[i].date = DayOf(report.endDate)
            /\ collections[j].date > DayOf(report.endDate)

\* C16: at any time of the day, the period 'Today' of the period totals
\* includes the collections dated today and no other.
C16_Today ==
    OfPeriod("period", {"Today"})
        => SummarisesCollections(IndexesOfDays(collections, DayOf(report.endDate),
                                               DayOf(report.endDate)))

\* the period 'Today' includes no collection dated another day
C16_TodayExcludesOtherDays ==
    OfPeriod("period", {"Today"}) /\ report.shown
        => report.totalCollections
            <= Cardinality(IndexesOfDays(collections, DayOf(report.endDate),
                                         DayOf(report.endDate)))

\* the number of days of a period 'Last N Days'
DaysOfLabel(periodLabel) == IF periodLabel = "Last 7 Days" THEN 7 ELSE 30

\* C17: at any time of the day, a period 'Last 7 Days' or 'Last 30 Days'
\* includes a record exactly when today - N <= date <= today, compared by day:
\* a record dated today - N is included, one dated today - N - 1 is not; in the
\* period totals, the net profit calculation and the expense summary.
C17_LastDays ==
    LET today == DayOf(report.endDate)
        first == today - DaysOfLabel(report.periodLabel)
    IN /\ OfPeriod("period", {"Last 7 Days", "Last 30 Days"})
            => SummarisesCollections(IndexesOfDays(collections, first, today))
       /\ OfPeriod("netProfit", {"Last 7 Days", "Last 30 Days"})
            => AnalysesVehicle(IndexesOfDays(collections, first, today),
                               IndexesOfDays(expenses, first, today))
       /\ OfPeriod("expenses", {"Last 7 Days", "Last 30 Days"})
            => SummarisesExpenses(IndexesOfDays(expenses, first, today))

\* C17 for the days after today - N: a record dated today - N is included only
\* when the clock reads the midnight that starts today
C17_LastDaysAfterFirst ==
    LET today == DayOf(report.endDate)
        first == today - DaysOfLabel(report.periodLabel)
                 + (IF report.startDate = InstantOfDate(DayOf(report.startDate))
                    THEN 0 ELSE 1)
    IN /\ OfPeriod("period", {"Last 7 Days", "Last 30 Days"})
            => SummarisesCollections(IndexesOfDays(collections, first, today))
       /\ OfPeriod("netProfit", {"Last 7 Days", "Last 30 Days"})
            => AnalysesVehicle(IndexesOfDays(collections, first, today),
                               IndexesOfDays(expenses, first, today))
       /\ OfPeriod("expenses", {"Last 7 Days", "Last 30 Days"})
            => SummarisesExpenses(IndexesOfDays(expenses, first, today))

\* C18: a custom period whose end is before its start is rejected as an
\* invalid range and no aggregate is produced, in the period totals and in the
\* net profit calculation.
C18_InvalidRange ==
    /\ report.kind \in {"period", "netProfit"}
    /\ last.outcome \in {"shown", "noneInPeriod"}
    /\ report.periodLabel = "custom"
    /\ report.startDate > report.endDate
    => /\ ~report.shown
       /\ last.outcome = "invalidRange"

\* what the handlers do with such a period: nothing is in it
C18_EmptyRange ==
    /\ OfPeriod("period", {"custom"}) /\ report.startDate > report.endDate
        => ~report.shown /\ last.outcome = "noneInPeriod"
    /\ OfPeriod("netProfit", {"custom"}) /\ report.startDate > report.endDate
        => /\ report.shown
           /\ report.collectionCount = 0 /\ report.totalCollections = 0
           /\ report.expenseCount = 0 /\ report.totalExpenses = 0
           /\ report.netProfit = 0

----------------------------------------------------------------------------
(* Properties of the alerts *)

\* the lines of the drivers at the given positions, in the order of the store,
\* with the days from today to the expiry
ExpectedLines(ds, today) ==
    [k \in 1..Len(ds) |->
        [driverId |-> ds[k].id, days |-> ds[k].licenseExpiry - today]]

\* the drivers whose license expires fromDays to toDays days after today
DriversExpiring(today, fromDays, toDays) ==
    ExpectedLines(SelectSeq(drivers, LAMBDA d : /\ d.licenseExpiry - today >= fromDays
                                                /\ d.licenseExpiry - today <= toDays),
                  today)

\* the drivers whose license expired before today
DriversExpired(today) ==
    ExpectedLines(SelectSeq(drivers, LAMBDA d : d.licenseExpiry < today), today)

\* C19: at every time of the day, a license is listed as expiring within 30
\* days exactly when it expires 0 to 30 days from today, today and the 30th day
\* included, and as expired exactly when it expired before today; no license is
\* both. This holds in the license alerts and in the fleet report.
C19_LicenseAlerts ==
    /\ Shown("licenses") /\ report.choice = "3"
        => report.listed = DriversExpiring(report.today, 0, 30)
    /\ Shown("licenses") /\ report.choice = "1"
        => /\ report.listed = DriversExpired(report.today)
           /\ \A k \in 1..Len(report.listed) :
                \A j \in 1..Len(DriversExpiring(report.today, 0, 30)) :
                    report.listed[k].driverId
                        # DriversExpiring(report.today, 0, 30)[j].driverId
    /\ Shown("fleet")
        => report.alerts.expiringLicenses = DriversExpiring(report.today, 0, 30)

\* the alerts list a license that expires today or in 30 days and leave out
\* one that expires in 31 days or expired yesterday
C19_Witness ==
    /\ Shown("licenses") /\ report.choice = "3"
    /\ \E k \in 1..Len(report.listed) : report.listed[k].days \in {0, 30}
    /\ \E k \in 1..Len(drivers) :
            /\ drivers[k].licenseExpiry - report.today \in {0 - 1, 31}
            /\ \A j \in 1..Len(report.listed) :
                    report.listed[j].driverId # drivers[k].id

\* the vehicle's collections reach less than 80% of its target on average
BelowTarget(vehicle) ==
    LET S == IndexesOfVehicle(collections, vehicle.id)
    IN SumAt(Amounts(collections), S) * 100 < 80 * Cardinality(S) * vehicle.dailyTarget

\* C20: the fleet report flags a vehicle as underperforming exactly when the
\* vehicle has at least one collection and its percent of target is strictly
\* less than 80.
C20_Underperforming ==
    Shown("fleet") =>
        \A v \in 1..Len(vehicles) :
            (\E k \in 1..Len(report.alerts.underperforming) :
                report.alerts.underperforming[k].vehicleId = vehicles[v].id)
            <=> /\ IndexesOfVehicle(collections, vehicles[v].id) # {}
                /\ BelowTarget(vehicles[v])

\* a fleet report that flags a vehicle and does not flag a vehicle at exactly
\* 80% of its target nor a vehicle without collections
C20_Witness ==
    /\ Shown("fleet")
    /\ Len(report.alerts.underperforming) = 1
    /\ \E i, j \in 1..Len(report.vehiclePerformance) :
            /\ report.vehiclePerformance[i].collectionCount = 0
            /\ report.vehiclePerformance[j].collectionCount > 0
            /\ report.vehiclePerformance[j].targetAchievement = Whole(80)

\* the alert conditions on the vehicles: an active vehicle without a driver, a
\* vehicle under maintenance, a vehicle with collections below 80% of its target
VehicleAlertHolds ==
    \E v \in 1..Len(vehicles) :
        \/ vehicles[v].status = "active" /\ vehicles[v].assignedDriverId = NULL
        \/ vehicles[v].status = "maintenance"
        \/ /\ IndexesOfVehicle(collections, vehicles[v].id) # {}
           /\ BelowTarget(vehicles[v])

\* C21: the fleet report states that there are no alerts exactly when no
\* alert condition holds: no license is expiring within 30 days or already
\* expired, no active vehicle is without a driver, no vehicle is under
\* maintenance and no vehicle with collections is below 80% of its target.
C21_NoAlerts ==
    Shown("fleet") =>
        (report.alerts.noAlerts
         <=> /\ ~ \E d \in 1..Len(drivers) : drivers[d].licenseExpiry - report.today <= 30
             /\ ~ VehicleAlertHolds)

\* C21 without the expired licenses: the statement is made exactly when no
\* license expires in 0 to 30 days and no condition on the vehicles holds
C21_NoAlertsButExpired ==
    Shown("fleet") =>
        (report.alerts.noAlerts
         <=> /\ ~ \E d \in 1..Len(drivers) :
                    /\ drivers[d].licenseExpiry - report.today >= 0
                    /\ drivers[d].licenseExpiry - report.today <= 30
             /\ ~ VehicleAlertHolds)

----------------------------------------------------------------------------
(* Properties of the operations on the assignment references *)

\* a step that unassigns the d-th driver: the reference of the driver and the
\* reference of its vehicle become null and no other record changes
Unassigns(d) ==
    /\ drivers' = [drivers EXCEPT ![d].assignedVehicleId = NULL]
    /\ vehicles' = [k \in 1..Len(vehicles) |->
                        IF vehicles[k].id = drivers[d].assignedVehicleId
                        THEN [vehicles[k] EXCEPT !.assignedDriverId = NULL]
                        ELSE vehicles[k]]
    /\ UNCHANGED <<collections, expenses>>

\* C22: unassignment is offered: for a driver D that is assigned to a vehicle V
\* there is an operation that sets D.assignedVehicleId and V.assignedDriverId
\* to null and changes no other record.
C22_UnassignmentOffered ==
    \A d \in 1..Len(drivers) :
        drivers[d].assignedVehicleId # NULL => ENABLED (Next /\ Unassigns(d))

\* what the operations do instead: no step is an unassignment
C22_NoUnassignment ==
    [][\A d \in 1..Len(drivers) :
            drivers[d].assignedVehicleId # NULL => ~Unassigns(d)]_vars

----------------------------------------------------------------------------
(* Properties of the ids *)

\* the number that the digits of an id spell
NumberOf(id) == id[2] * 100 + id[3] * 10 + id[4]

DistinctIds(seq) ==
    \A i, j \in 1..Len(seq) : i # j => seq[i].id # seq[j].id

\* the id of the last record of seq is the lowest numbered id of the prefix
\* that no other record of seq has
LastIdIsLowestFree(prefix, seq) ==
    LET new == seq[Len(seq)].id
        others == {seq[i].id : i \in 1..Len(seq) - 1}
    IN /\ new[1] = prefix
       /\ Len(new) = 4
       /\ new \notin others
       /\ \A k \in 1..NumberOf(new) - 1 :
              \E id \in others : id[1] = prefix /\ NumberOf(id) = k

\* C23: in each of the four stores the ids are pairwise distinct after any
\* sequence of add and record operations, overwrites of a collection
\* included, and the id given to a new record is the lowest numbered id of
\* its prefix that is not among the ids of the other records.
C23_UniqueIds ==
    /\ [](/\ DistinctIds(vehicles) /\ DistinctIds(drivers)
          /\ DistinctIds(collections) /\ DistinctIds(expenses))
    /\ [][/\ vehicles' # vehicles => LastIdIsLowestFree("v", vehicles')
          /\ drivers' # drivers => LastIdIsLowestFree("d", drivers')
          /\ collections' # collections => LastIdIsLowestFree("c", collections')
          /\ expenses' # expenses => LastIdIsLowestFree("e", expenses')]_vars

\* an overwrite has removed the first of two collections, and the collection
\* recorded in its place has taken the id that became free; every store has
\* two records
C23_Witness ==
    /\ Len(collections) = 2
    /\ NumberOf(collections[1].id) = 2
    /\ NumberOf(collections[2].id) = 1
    /\ Len(vehicles) > 1 /\ Len(drivers) > 1 /\ Len(expenses) > 1

----------------------------------------------------------------------------
(* Properties of assignDriverToVehicle on stores that disagree *)

\* no driver is referenced by two vehicles and no vehicle by two drivers
NoDoubleReference(ds, vs) ==
    /\ \A i, j \in 1..Len(vs) :
        (i # j /\ vs[i].assignedDriverId # NULL)
            => vs[i].assignedDriverId # vs[j].assignedDriverId
    /\ \A i, j \in 1..Len(ds) :
        (i # j /\ ds[i].assignedVehicleId # NULL)
            => ds[i].assignedVehicleId # ds[j].assignedVehicleId

\* C24: when the drivers and vehicles that assignDriverToVehicle loads do not
\* form a matching, the call refuses: it reaches no save and changes no
\* driver and no vehicle; so no state has two vehicles that reference the
\* same driver or two drivers that reference the same vehicle.
C24_RefusesInconsistent ==
    /\ [][ (last'.op = "assign" /\ ~MutualAssignment(drivers, vehicles))
            => /\ ~AssignmentMade(last')
               /\ drivers' = drivers /\ vehicles' = vehicles ]_vars
    /\ []NoDoubleReference(drivers, vehicles)

----------------------------------------------------------------------------
(* Properties of the groups when a collection names no stored record *)

\* the count, total and average of a group entry are those of the collections S
GroupFigures(entry, S) ==
    /\ entry.collectionCount = Cardinality(S)
    /\ entry.totalCollections = SumAt(Amounts(collections), S)
    /\ entry.averageDaily =
          IF S = {} THEN Zero ELSE Frac(SumAt(Amounts(collections), S), Cardinality(S))

\* the sum of the collectionCount of the entries
RECURSIVE CountedIn(_)
CountedIn(entries) ==
    IF Len(entries) = 0 THEN 0
    ELSE entries[1].collectionCount + CountedIn(Tail(entries))

\* C25: a collection whose vehicleId is the id of no vehicle, or whose
\* driverId is the id of no driver ('unassigned' included), is counted in no
\* group of the fleet report for vehicles, respectively drivers; the report
\* is still produced, with one group for each stored vehicle and driver, and
\* the count, total and average of each group are those of the collections
\* of that vehicle or driver, whatever the other records are.
C25_DanglingExcluded ==
    (last.op = "generateFleetPerformanceReport") =>
        /\ report.kind = "fleet" /\ report.shown
        /\ Len(report.vehiclePerformance) = Len(vehicles)
        /\ Len(report.driverPerformance) = Len(drivers)
        /\ \A k \in 1..Len(vehicles) :
              \E e \in 1..Len(report.vehiclePerformance) :
                 /\ report.vehiclePerformance[e].vehicleId = vehicles[k].id
                 /\ GroupFigures(report.vehiclePerformance[e],
                                 IndexesOfVehicle(collections, vehicles[k].id))
        /\ \A k \in 1..Len(drivers) :
              \E e \in 1..Len(report.driverPerformance) :
                 /\ report.driverPerformance[e].driverId = drivers[k].id
                 /\ GroupFigures(report.driverPerformance[e],
                                 IndexesOfDriver(collections, drivers[k].id))
        /\ CountedIn(report.vehiclePerformance) =
              Cardinality({i \in 1..Len(collections) :
                              collections[i].vehicleId \in Ids(vehicles)})
        /\ CountedIn(report.driverPerformance) =
              Cardinality({i \in 1..Len(collections) :
                              collections[i].driverId \in Ids(drivers)})

\* the report was produced from two collections: one of an unknown vehicle
\* recorded without a driver, and one of a stored vehicle and driver
C25_Witness ==
    /\ last.op = "generateFleetPerformanceReport"
    /\ Len(collections) = 2
    /\ collections[1].vehicleId = UnknownVehicleId
    /\ collections[1].driverId = UNASSIGNED
    /\ collections[2].vehicleId \in Ids(vehicles)
    /\ collections[2].driverId \in Ids(drivers)

----------------------------------------------------------------------------
(* Properties of the daily targets *)

\* C26: after any sequence of addVehicle and updateVehicle every stored
\* vehicle has dailyTarget > 0: no target that is not a number, is zero or
\* is negative is stored when a vehicle is created, and a target update
\* that is rejected leaves the target as it was.
C26_PositiveTargets ==
    /\ [](\A i \in 1..Len(vehicles) : vehicles[i].dailyTarget > 0)
    /\ [][ (last'.op = "updateVehicle" /\ Len(vehicles') = Len(vehicles))
            => \A i \in 1..Len(vehicles) :
                  \/ vehicles'[i].dailyTarget = vehicles[i].dailyTarget
                  \/ vehicles'[i].dailyTarget > 0 ]_vars

\* what holds instead: a stored target is greater than 0 or is the null that
\* is written for a target that is not finite
C26_PositiveOrNullTargets ==
    \A i \in 1..Len(vehicles) :
        vehicles[i].dailyTarget > 0 \/ vehicles[i].dailyTarget = NullAsNumber

----------------------------------------------------------------------------
(* Properties of the operations that are not assignments *)

\* the assignment reference of each stored record, by id
DriverReferences(ds) == {<<ds[i].id, ds[i].assignedVehicleId>> : i \in 1..Len(ds)}
VehicleReferences(vs) == {<<vs[i].id, vs[i].assignedDriverId>> : i \in 1..Len(vs)}

\* C27: only assignDriverToVehicle changes the assignedDriverId or the
\* assignedVehicleId of a stored record: addVehicle and addDriver add a
\* record whose reference is null and leave the others as they are, and
\* updateVehicle, updateDriver, recordCollection, recordExpense and the
\* reports leave the references of all stored vehicles and drivers unchanged.
C27_OnlyAssignmentChangesReferences ==
    [][ /\ last'.op = "addVehicle"
            => /\ DriverReferences(drivers') = DriverReferences(drivers)
               /\ VehicleReferences(vehicles') \in
                    {VehicleReferences(vehicles),
                     VehicleReferences(vehicles) \cup {<<last'.vehicleId, NULL>>}}
        /\ last'.op = "addDriver"
            => /\ VehicleReferences(vehicles') = VehicleReferences(vehicles)
               /\ DriverReferences(drivers') \in
                    {DriverReferences(drivers),
                     DriverReferences(drivers) \cup {<<last'.driverId, NULL>>}}
        /\ last'.op \notin {"addVehicle", "addDriver", "assign"}
            => /\ DriverReferences(drivers') = DriverReferences(drivers)
               /\ VehicleReferences(vehicles') = VehicleReferences(vehicles)
               /\ Len(drivers') = Len(drivers) /\ Len(vehicles') = Len(vehicles) ]_vars

\* a vehicle that has a driver was updated and saved in a state where a
\* collection and an expense are recorded
C27_Witness ==
    /\ last.op = "updateVehicle" /\ last.outcome = "saved"
    /\ VehicleById(vehicles, last.vehicleId).assignedDriverId # NULL
    /\ VehicleById(vehicles, last.vehicleId).status = "inactive"
    /\ \E i \in 1..Len(drivers) : drivers[i].licenseExpiry = 500
                                     /\ drivers[i].assignedVehicleId # NULL
    /\ Len(collections) > 0 /\ Len(expenses) > 0

----------------------------------------------------------------------------
(* Properties of what an assignment changes *)

\* the record without its assignment reference
WithoutDriverReference(vehicle) == [vehicle EXCEPT !.assignedDriverId = NULL]
WithoutVehicleReference(driver) == [driver EXCEPT !.assignedVehicleId = NULL]

\* C28: an assignment of D to V changes at most four records and only their
\* assignment reference: D, V, the driver that V had and the vehicle that D
\* had; every other driver and vehicle and every other field is unchanged,
\* and the stores hold the same drivers and vehicles as before.
C28_AssignmentFrame ==
    [][ AssignmentMade(last')
        => LET D == last'.driverId
               V == last'.vehicleId
               D1 == VehicleById(vehicles, V).assignedDriverId
               V1 == DriverById(drivers, D).assignedVehicleId
           IN /\ Len(drivers') = Len(drivers)
              /\ Len(vehicles') = Len(vehicles)
              /\ \A i \in 1..Len(drivers) :
                    /\ WithoutVehicleReference(drivers'[i])
                            = WithoutVehicleReference(drivers[i])
                    /\ drivers[i].id \notin {D, D1} => drivers'[i] = drivers[i]
              /\ \A j \in 1..Len(vehicles) :
                    /\ WithoutDriverReference(vehicles'[j])
                            = WithoutDriverReference(vehicles[j])
                    /\ vehicles[j].id \notin {V, V1} => vehicles'[j] = vehicles[j]
              /\ collections' = collections
              /\ expenses' = expenses ]_vars

\* a saved assignment changed the reference of four records: each of two
\* drivers had one of two vehicles, and one driver took the other's vehicle
C28_Witness ==
    /\ AssignmentMade(last) /\ last.outcome = "saved"
    /\ last.prevDriverId \notin {NULL, last.driverId}
    /\ last.prevVehicleId \notin {NULL, last.vehicleId}
    /\ DriverById(drivers, last.prevDriverId).assignedVehicleId = NULL
    /\ VehicleById(vehicles, last.prevVehicleId).assignedDriverId = NULL
    /\ DriverById(drivers, last.driverId).assignedVehicleId = last.vehicleId
    /\ VehicleById(vehicles, last.vehicleId).assignedDriverId = last.driverId

----------------------------------------------------------------------------
(* Properties of an assignment that is not made *)

NotMadeOutcomes ==
    {"noDrivers", "noVehicles", "noDriverMatches", "invalidSelection", "cancelled",
     "vehicleNotFound", "replaceDeclined"}

\* C29: when assignDriverToVehicle ends without making the assignment (no
\* driver matches, the vehicle is not found, or the operator declines to
\* reassign the driver or to replace the vehicle's driver) it saves nothing:
\* the drivers and vehicles are as before the call, and the driver of the
\* vehicle keeps the vehicle when the replacement is declined.
C29_NothingSavedWhenNotMade ==
    [][ (last'.op = "assign" /\ ~AssignmentMade(last'))
        => /\ last'.outcome \in NotMadeOutcomes
           /\ drivers' = drivers
           /\ vehicles' = vehicles
           /\ collections' = collections
           /\ expenses' = expenses ]_vars

\* the replacement of a vehicle's driver was declined and the vehicle and its
\* driver still reference each other
C29_Witness ==
    /\ last.op = "assign" /\ last.outcome = "replaceDeclined"
    /\ \E i \in 1..Len(drivers), j \in 1..Len(vehicles) :
          /\ drivers[i].assignedVehicleId = vehicles[j].id
          /\ vehicles[j].assignedDriverId = drivers[i].id
    /\ \E i \in 1..Len(drivers) : drivers[i].assignedVehicleId = NULL

----------------------------------------------------------------------------
(* Properties of the top performers *)

Least(a, b) == IF a < b THEN a ELSE b

NetProfitOf(vehicleId) == VehicleSum(collections, vehicleId) - VehicleSum(expenses, vehicleId)

\* the vehicles of the entries, in the order of the list
VehiclesListed(entries) == [k \in 1..Len(entries) |-> entries[k].vehicleId]

\* C30: the top performers are the best ranked vehicles among those with a
\* collection: the rankings view shows the min(3, n) of them that achieve the
\* most of their target and the fleet report the min(5, n) with the highest
\* net profit, n being the number of vehicles with collections; no vehicle
\* without collections takes the place of one that has collections.
C30_TopPerformers ==
    /\ Shown("rankings") =>
        LET listed == VehiclesListed(report.top)
            Listed == {listed[k] : k \in 1..Len(listed)}
        IN /\ Listed \subseteq WithCollections
           /\ Cardinality(Listed) = Len(listed)
           /\ Len(listed) = Least(TopCount, Cardinality(WithCollections))
           /\ \A a \in Listed, b \in WithCollections \ Listed : AchievesNoMore(b, a)
    /\ Shown("fleet") =>
        LET listed == VehiclesListed(report.topVehicles)
            Listed == {listed[k] : k \in 1..Len(listed)}
        IN /\ Listed \subseteq WithCollections
           /\ Cardinality(Listed) = Len(listed)
           /\ Len(listed) = Least(FleetTopCount, Cardinality(WithCollections))
           /\ \A a \in Listed, b \in WithCollections \ Listed :
                 NetProfitOf(b) <= NetProfitOf(a)

\* what holds instead: the vehicles shown are those with collections among
\* the first three, respectively five, of the ranking of all vehicles
C30_TopOfAllVehicles ==
    /\ Shown("rankings") =>
        VehiclesListed(report.top) =
            VehiclesListed(Filter(SliceFirst(report.performance, TopCount),
                                  LAMBDA p : p.vehicleId \in WithCollections))
    /\ Shown("fleet") =>
        VehiclesListed(report.topVehicles) =
            VehiclesListed(Filter(SliceFirst(report.vehiclePerformance, FleetTopCount),
                                  LAMBDA p : p.vehicleId \in WithCollections))

====
